---------------------------- MODULE Spec2Model ----------------------------
(***************************************************************************)
(* A model of the operator scripts around the BitNet inference engine:     *)
(* the interactive chat loops (python/chat/*.py), their response           *)
(* extractors, the engine invocation (timeout and interrupt handling) and  *)
(* the parallel inference driver (python/benchmarks/parallel_inference.py).*)
(*                                                                         *)
(* Text is modelled as a sequence of one-character strings, so that the    *)
(* Python string operations (find, split, strip, isprintable, re.search)   *)
(* are computed character by character as the interpreter computes them.   *)
(***************************************************************************)
EXTENDS Integers, Sequences, FiniteSets, TLC

VARIABLES
    \* ---- the chat session (BitNet*Chat.run) ----
    script,                \* which chat script is running
    pc,                    \* "prompt" | "exited" | "crashed" | "idle"
    conversation_history,  \* self.conversation_history
    appended,              \* history variable: entries appended since the last /clear
    host,                  \* which files exist on the host when the script starts
    written,               \* files and directories created while starting
    system_prompt,         \* self.system_prompt
    settings,              \* self.settings / self.temperature, self.max_tokens
    environ,               \* os.environ OMP_NUM_THREADS, MKL_NUM_THREADS
    last,                  \* the last input run() handled
    printed,               \* what run() printed for it
    turns,                 \* turns taken so far
    failures,              \* turns whose generation did not yield a response
    commands,              \* commands given so far
    engine_runs,           \* engine processes launched so far
    \* ---- one extraction (generate_response / extract_response_streaming) ----
    stdout,                \* what the engine wrote to stdout
    stderr,                \* what the engine wrote to stderr
    returncode,            \* the engine's exit code
    result,                \* what the extractor returned
    \* ---- one engine invocation (timeout, interrupt) ----
    caller,                \* position of the calling script
    process,               \* state of the engine process
    elapsed,               \* wall-clock seconds since the launch
    outcome,               \* how the invocation ended for the caller
    \* ---- parallel_inference ----
    cpu_count,             \* multiprocessing.cpu_count() of the host
    prompts,               \* the prompts argument
    strategy,              \* the strategy argument
    futures,               \* the future of each submitted task
    completion,            \* task indices in the order they completed
    results,               \* the list parallel_inference builds
    par_pc,                \* position of parallel_inference
    \* ---- one streamed response (generate_streaming / stream_response) ----
    reader,                \* the script that reads the engine's stdout
    unread,                \* the part of the engine's stdout not yet read
    rd,                    \* the local variables of the read loop
    emitted,               \* what the reader has printed to the terminal
    read_pc,               \* position of the reader
    \* ---- kernel tuning (KernelTuner.run_tuning) ----
    kernel_config_ini,     \* the file include/kernel_config.ini
    ini_before,            \* history variable: the file when tuning started
    original_kernel_config,\* self.original_kernel_config
    configs,               \* the configurations run_tuning tests
    tuner_results,         \* self.results of the tuner
    tune_log,              \* history variable: the steps run for each configuration
    tune_pc,               \* position of run_tuning
    \* ---- one command line for run_inference.py ----
    cmd_by,                \* the chat script that built the command line
    command,               \* the arguments after the wrapper's name
    argp,                  \* the state of the wrapper's argument parser
    cmd_pc,                \* "parsing", then the parser's verdict
    \* ---- ThreadMonitor (tests/monitor_threads.py) ----
    monitoring,            \* self.monitoring
    stats,                 \* self.stats: each sample with the run that took it
    monitor_thread,        \* position of the thread running monitor_loop
    run_no,                \* the run benchmark_thread_configs is in
    raised,                \* the exception run_inference_with_monitoring is raising
    mon_pc,                \* position of the main thread
    \* ---- the pipes between a streaming reader and the engine ----
    pipe_by,               \* the script that reads
    capacity,              \* how much one pipe holds
    program,               \* what the engine has still to write, in order
    child,                 \* the engine process: "running" | "exited"
    out_pipe,              \* written to the stdout pipe and not yet read
    err_pipe,              \* written to the stderr pipe and not yet read
    pipe_pc                \* position of the reader

startVars   == <<host, written>>
sessionVars == <<startVars, script, pc, conversation_history, appended, system_prompt,
                 settings, environ, last, printed, turns, failures, commands,
                 engine_runs>>
extractVars == <<stdout, stderr, returncode, result>>
invokeVars  == <<caller, process, elapsed, outcome>>
parVars     == <<cpu_count, prompts, strategy, futures, completion, results,
                 par_pc>>
readVars    == <<reader, unread, rd, emitted, read_pc>>
tuneVars    == <<kernel_config_ini, ini_before, original_kernel_config, configs,
                 tuner_results, tune_log, tune_pc>>
cmdVars     == <<cmd_by, command, argp, cmd_pc>>
monVars     == <<monitoring, stats, monitor_thread, run_no, raised, mon_pc>>
pipeVars    == <<pipe_by, capacity, program, child, out_pipe, err_pipe, pipe_pc>>
laterVars   == <<tuneVars, cmdVars, monVars, pipeVars>>
vars == <<sessionVars, extractVars, invokeVars, parVars, readVars, laterVars>>

-----------------------------------------------------------------------------
(***************************************************************************)
(* Python string operations on sequences of characters.                    *)
(***************************************************************************)

SetMin(S) == CHOOSE x \in S : \A y \in S : x <= y
SetMax(S) == CHOOSE x \in S : \A y \in S : x >= y

\* s[i:] and s[:n] with Python's 0-based, clamped slice bounds.
SliceFrom(s, i) == SubSeq(s, i + 1, Len(s))
SliceTo(s, n)   == SubSeq(s, 1, IF n < Len(s) THEN n ELSE Len(s))

\* whether sub occurs in s at 0-based index i
OccursAt(s, sub, i) ==
    /\ i >= 0
    /\ i + Len(sub) <= Len(s)
    /\ SubSeq(s, i + 1, i + Len(sub)) = sub

\* str.find: lowest 0-based index of sub in s, or -1
Find(s, sub) ==
    LET hits == {i \in 0..(Len(s) - Len(sub)) : OccursAt(s, sub, i)}
    IN  IF hits = {} THEN -1 ELSE SetMin(hits)

\* str.rfind: highest 0-based index of sub in s, or -1
RFind(s, sub) ==
    LET hits == {i \in 0..(Len(s) - Len(sub)) : OccursAt(s, sub, i)}
    IN  IF hits = {} THEN -1 ELSE SetMax(hits)

\* sub in s
Contains(s, sub) == Find(s, sub) # -1

\* str.split(sep): the parts between successive (non-overlapping) separators
RECURSIVE Split(_, _)
Split(s, sep) ==
    LET k == Find(s, sep)
    IN  IF k = -1 THEN <<s>>
        ELSE <<SliceTo(s, k)>> \o Split(SliceFrom(s, k + Len(sep)), sep)

\* str.split(sep, 1)
Split1(s, sep) ==
    LET k == Find(s, sep)
    IN  IF k = -1 THEN <<s>>
        ELSE <<SliceTo(s, k), SliceFrom(s, k + Len(sep))>>

First(parts) == parts[1]
Last(parts)  == parts[Len(parts)]

\* str.isspace for one character ("\f" stands for the other control whitespace)
IsSpace(c) == c \in {" ", "\n", "\t", "\r", "\f"}

\* str.isprintable for one character: control characters are not printable;
\* "ESC" stands for the escape character and the other control characters
IsPrintable(c) == c \notin {"\n", "\t", "\r", "\f", "ESC"}

IsDigit(c) == c \in {"0", "1", "2", "3", "4", "5", "6", "7", "8", "9"}

LStrip(s) ==
    LET keep == {i \in 1..Len(s) : ~IsSpace(s[i])}
    IN  IF keep = {} THEN <<>> ELSE SubSeq(s, SetMin(keep), Len(s))

RStrip(s) ==
    LET keep == {i \in 1..Len(s) : ~IsSpace(s[i])}
    IN  IF keep = {} THEN <<>> ELSE SubSeq(s, 1, SetMax(keep))

Strip(s) == LStrip(RStrip(s))

\* '\n'.join(lines)
RECURSIVE JoinLines(_)
JoinLines(lines) ==
    IF lines = <<>> THEN <<>>
    ELSE IF Len(lines) = 1 THEN lines[1]
    ELSE lines[1] \o <<"\n">> \o JoinLines(Tail(lines))

\* ''.join(c for c in s if c.isprintable() or c in '\n\t')
\* a filter that removes form feeds and carriage returns only
KeepPrintable_OnlyFeeds(s) == SelectSeq(s, LAMBDA c : c \notin {"\r", "\f"})

KeepPrintable(s) == SelectSeq(s, LAMBDA c : IsPrintable(c) \/ c \in {"\n", "\t"})

\* text=True / universal_newlines=True: the TextIOWrapper's universal newline
\* translation turns "\r\n" and a lone "\r" into "\n"
RECURSIVE UniversalNewlines(_)
UniversalNewlines(s) ==
    LET returns == {i \in 1..Len(s) : s[i] = "\r"}
        k       == SetMin(returns)
        skip    == IF k < Len(s) /\ s[k + 1] = "\n" THEN k + 1 ELSE k
    IN  IF returns = {} THEN s
        ELSE SubSeq(s, 1, k - 1) \o <<"\n">>
             \o UniversalNewlines(SubSeq(s, skip + 1, Len(s)))

-----------------------------------------------------------------------------
(***************************************************************************)
(* The performance pattern of the scripts: one or more digits, an optional *)
(* dot, any digits (this is the group), any whitespace, then the words     *)
(* "tokens per second"; and float() of the group.                          *)
(***************************************************************************)

TOKENS_PER_SECOND ==
    <<"t","o","k","e","n","s"," ","p","e","r"," ","s","e","c","o","n","d">>

\* end (0-based, exclusive) of the run of digits of s that starts at index j
DigitsEnd(s, j) ==
    SetMin({k \in j..Len(s) : k = Len(s) \/ ~IsDigit(s[k + 1])})

\* end (0-based, exclusive) of the run of whitespace of s that starts at index j
SpaceEnd(s, j) ==
    SetMin({k \in j..Len(s) : k = Len(s) \/ ~IsSpace(s[k + 1])})

NoMatch == [ok |-> FALSE, group |-> <<>>, end |-> 0]

\* the match of the pattern that starts at index i of s, if there is one:
\* \d+ and \d* and \s* are greedy, and what follows them starts with neither a
\* digit nor whitespace, so each takes its whole run; \.? gives the dot back
\* when the rest does not match with it
PerfMatchAt(s, i) ==
    LET d1      == DigitsEnd(s, i)
        withDot == d1 < Len(s) /\ s[d1 + 1] = "."
        d2      == IF withDot THEN DigitsEnd(s, d1 + 1) ELSE d1
        w2      == SpaceEnd(s, d2)
        w1      == SpaceEnd(s, d1)
    IN  IF d1 = i THEN NoMatch
        ELSE IF withDot /\ OccursAt(s, TOKENS_PER_SECOND, w2)
             THEN [ok |-> TRUE, group |-> SubSeq(s, i + 1, d2),
                   end |-> w2 + Len(TOKENS_PER_SECOND)]
        ELSE IF OccursAt(s, TOKENS_PER_SECOND, w1)
             THEN [ok |-> TRUE, group |-> SubSeq(s, i + 1, d1),
                   end |-> w1 + Len(TOKENS_PER_SECOND)]
        ELSE NoMatch

\* the leftmost match at or after index from
PerfMatchFrom(s, from) ==
    LET starts == {i \in from..(Len(s) - 1) : PerfMatchAt(s, i).ok}
    IN  IF starts = {} THEN NoMatch ELSE PerfMatchAt(s, SetMin(starts))

\* re.search(pattern, s): the first (leftmost) match
ReSearch(s) == PerfMatchFrom(s, 0)

\* re.findall(pattern, s): the groups of the successive non-overlapping matches
RECURSIVE FindAllFrom(_, _)
FindAllFrom(s, from) ==
    LET m == PerfMatchFrom(s, from)
    IN  IF ~m.ok THEN <<>> ELSE <<m.group>> \o FindAllFrom(s, m.end)

ReFindAll(s) == FindAllFrom(s, 0)

DigitVal(c) ==
    CASE c = "0" -> 0 [] c = "1" -> 1 [] c = "2" -> 2 [] c = "3" -> 3
      [] c = "4" -> 4 [] c = "5" -> 5 [] c = "6" -> 6 [] c = "7" -> 7
      [] c = "8" -> 8 [] c = "9" -> 9

\* the value of a string of digits (0 for the empty string)
RECURSIVE DigitsValue(_)
DigitsValue(ds) ==
    IF ds = <<>> THEN 0
    ELSE 10 * DigitsValue(SubSeq(ds, 1, Len(ds) - 1)) + DigitVal(ds[Len(ds)])

\* float(g) for an unsigned g = digits [. digits]; a float is represented by its
\* value in hundredths, which is exact for up to two fractional digits
FloatOfUnsigned(g) ==
    LET k     == Find(g, <<".">>)
        whole == IF k = -1 THEN g ELSE SliceTo(g, k)
        frac  == IF k = -1 THEN <<>> ELSE SliceFrom(g, k + 1)
        frac2 == SliceTo(frac \o <<"0", "0">>, 2)
    IN  100 * DigitsValue(whole) + DigitsValue(frac2)

-----------------------------------------------------------------------------
(***************************************************************************)
(* The response extractors.                                                *)
(***************************************************************************)

ASSISTANT == <<"A","s","s","i","s","t","a","n","t",":">>

M_build   == <<"b","u","i","l","d",":">>
M_main    == <<"m","a","i","n",":">>
M_llama   == <<"l","l","a","m","a","_">>
M_llm     == <<"l","l","m","_">>
M_warning == <<"w","a","r","n","i","n","g",":">>
M_ggml    == <<"g","g","m","l","_">>

\* the marker lists, in the order each script writes them
ChatMarkers      == <<M_build, M_main, M_llama, M_llm, M_warning>>
AdvancedMarkers  == <<M_build, M_main, M_llama, M_llm, M_warning, M_ggml>>
StreamingMarkers == <<M_build, M_main, M_llama, M_llm, M_warning, M_ggml>>

MSG_chat_no_response ==
    <<"I"," ","c","o","u","l","d","n","'","t"," ","g","e","n","e","r","a","t","e"," ","a"," ","r","e","s","p","o","n","s","e","."," ","P","l","e","a","s","e"," ","t","r","y"," ","a","g","a","i","n",".">>
MSG_chat_error == <<"E","r","r","o","r",":"," ">>
MSG_adv_no_response ==
    <<"I"," ","c","o","u","l","d","n","'","t"," ","g","e","n","e","r","a","t","e"," ","a"," ","p","r","o","p","e","r"," ","r","e","s","p","o","n","s","e","."," ","P","l","e","a","s","e"," ","t","r","y"," ","a","g","a","i","n",".">>
MSG_adv_error ==
    <<"E","r","r","o","r"," ","g","e","n","e","r","a","t","i","n","g"," ","r","e","s","p","o","n","s","e",":"," ">>

\* for marker in markers: if marker in response:
\*     response = response.split(marker)[0].strip()
RECURSIVE CutMarkers(_, _)
CutMarkers(response, markers) ==
    IF markers = <<>> THEN response
    ELSE LET marker == Head(markers)
             cut    == IF Contains(response, marker)
                       THEN Strip(First(Split(response, marker)))
                       ELSE response
         IN  CutMarkers(cut, Tail(markers))

\* a slip in the arithmetic of the start index: the delimiter is not skipped
ChatResponseStart_NoSkip(output) == Find(output, ASSISTANT)

\* chat.py: where the response starts in the output
ChatResponseStart(output) == Find(output, ASSISTANT) + Len(ASSISTANT)

\* chat.py: what generate_response returns once subprocess.run has returned
ChatGenerate(out, err, rc) ==
    LET output == UniversalNewlines(out)
        errout == UniversalNewlines(err)
        response_start == ChatResponseStart(output)
    IN  IF rc = 0
        THEN IF response_start > Len(ASSISTANT) - 1
             THEN LET response  == Strip(SliceFrom(output, response_start))
                      cleaned   == KeepPrintable(Strip(CutMarkers(response, ChatMarkers)))
                      perf      == ReSearch(errout \o output)
                  IN  [by |-> "chat", response |-> cleaned,
                       perf_info |-> IF perf.ok
                                     THEN <<" ", "[">> \o perf.group
                                          \o <<" ","t","o","k","/","s","]">>
                                     ELSE <<>>]
             ELSE [by |-> "chat", response |-> MSG_chat_no_response, perf_info |-> <<>>]
        ELSE [by |-> "chat", response |-> MSG_chat_error \o SliceTo(errout, 200),
              perf_info |-> <<>>]

\* the tokens-per-second value an extractor takes from the text it searches
SearchTokensPerSecond(text) ==
    LET perf == ReSearch(text)
    IN  IF perf.ok THEN FloatOfUnsigned(perf.group) ELSE 0

\* chat_advanced.py: what generate_response returns once subprocess.run has returned
AdvancedGenerate(out, err, rc) ==
    LET output == UniversalNewlines(out)
        errout == UniversalNewlines(err)
    IN  IF rc = 0
        THEN IF Contains(output, ASSISTANT)
             THEN LET response_start == RFind(output, ASSISTANT) + Len(ASSISTANT)
                      response == Strip(SliceFrom(output, response_start))
                      cleaned  == KeepPrintable(CutMarkers(response, AdvancedMarkers))
                  IN  [by |-> "advanced", response |-> Strip(cleaned),
                       tokens_per_second |-> SearchTokensPerSecond(errout \o output),
                       success |-> TRUE]
             ELSE [by |-> "advanced", response |-> MSG_adv_no_response,
                   success |-> FALSE]
        ELSE [by |-> "advanced", response |-> MSG_adv_error \o SliceTo(errout, 200),
              success |-> FALSE]


\* chat_streaming.py: the local variables of extract_response_streaming, with
\* consumed = the number of characters read from stdout so far
StreamingStart ==
    [current_line |-> <<>>, assistant_found |-> FALSE, response_started |-> FALSE,
     response_lines |-> <<>>, marker_found |-> FALSE, consumed |-> 0]

\* the first marker of the list that occurs in line (0 when none does)
FirstMarkerIn(line, markers) ==
    LET hits == {k \in 1..Len(markers) : Contains(line, markers[k])}
    IN  IF hits = {} THEN 0 ELSE SetMin(hits)

\* chat_streaming.py: one pass of the read loop, for the character char
StreamingRead(st, char) ==
    LET line1   == st.current_line \o <<char>>
        found   == ~st.assistant_found /\ Contains(line1, ASSISTANT)
        parts   == Split(line1, ASSISTANT)
        line2   == IF found /\ Len(parts) > 1 THEN Last(parts) ELSE line1
        started == st.response_started \/ (found /\ Len(parts) > 1)
        k       == FirstMarkerIn(line2, StreamingMarkers)
        before  == First(Split(line2, StreamingMarkers[k]))
        st1     == [st EXCEPT !.current_line = line2,
                              !.assistant_found = st.assistant_found \/ found,
                              !.response_started = started,
                              !.consumed = st.consumed + 1]
    IN  IF ~started THEN st1
        ELSE IF k # 0
             THEN [st1 EXCEPT !.marker_found = TRUE,
                              !.response_lines =
                                  IF Strip(before) # <<>>
                                  THEN Append(st.response_lines, RStrip(before))
                                  ELSE st.response_lines]
        ELSE IF char = "\n"
             THEN [st1 EXCEPT !.response_lines = Append(st.response_lines, RStrip(line2)),
                              !.current_line = <<>>]
        ELSE st1

\* chat_streaming.py: the read loop, until a marker is found or stdout ends
RECURSIVE StreamingLoop(_, _)
StreamingLoop(st, output) ==
    IF st.marker_found \/ st.consumed >= Len(output) THEN st
    ELSE StreamingLoop(StreamingRead(st, output[st.consumed + 1]), output)

\* chat_streaming.py: what extract_response_streaming returns for a process that
\* wrote out and err and exited
StreamingExtract(out, err) ==
    LET output == UniversalNewlines(out)
        errout == UniversalNewlines(err)
        st     == StreamingLoop(StreamingStart, output)
        lines  == IF Strip(st.current_line) # <<>> /\ st.response_started
                  THEN Append(st.response_lines, RStrip(st.current_line))
                  ELSE st.response_lines
        remaining_output == SliceFrom(output, st.consumed)
        all_output       == remaining_output \o errout
        full_response    == KeepPrintable(Strip(JoinLines(lines)))
    IN  [by |-> "streaming", response |-> full_response,
         tokens_per_second |-> SearchTokensPerSecond(all_output),
         success |-> full_response # <<>>]

\* benchmark.py run_benchmark, benchmark_optimized.py run_single_benchmark:
\* the tokens-per-second value of one run
BenchmarkParse(out, err) ==
    LET output  == UniversalNewlines(out) \o UniversalNewlines(err)
        matches == ReFindAll(output)
    IN  [by |-> "benchmark", found |-> matches # <<>>,
         tokens_per_second |-> IF matches # <<>>
                               THEN FloatOfUnsigned(Last(matches)) ELSE 0]

-----------------------------------------------------------------------------
(***************************************************************************)
(* float() and int() of what the user types for a setting. The inputs of   *)
(* the model are written with digits, ".", "-", "+" and letters, for which *)
(* this is Python's grammar: optional sign, then digits with (for a float) *)
(* at most one dot and at least one digit.                                 *)
(***************************************************************************)

Unsigned(s) == IF s # <<>> /\ s[1] \in {"-", "+"} THEN Tail(s) ELSE s
Sign(s)     == IF s # <<>> /\ s[1] = "-" THEN -1 ELSE 1

\* int(s) succeeds
IsIntLiteral(s) ==
    LET u == Unsigned(Strip(s))
    IN  u # <<>> /\ \A i \in 1..Len(u) : IsDigit(u[i])

\* float(s) succeeds
IsFloatLiteral(s) ==
    LET u == Unsigned(Strip(s))
    IN  /\ \E i \in 1..Len(u) : IsDigit(u[i])
        /\ \A i \in 1..Len(u) : IsDigit(u[i]) \/ u[i] = "."
        /\ Cardinality({i \in 1..Len(u) : u[i] = "."}) <= 1

\* int(s), and float(s) in hundredths, of a literal
IntOf(s)   == Sign(Strip(s)) * DigitsValue(Unsigned(Strip(s)))
FloatOf(s) == Sign(Strip(s)) * FloatOfUnsigned(Unsigned(Strip(s)))

-----------------------------------------------------------------------------
(***************************************************************************)
(* The chat session: the loop of run() in each of the five chat scripts.   *)
(* A transcript entry is <<role, message>>; the message of the n-th        *)
(* exchange appended in the session is <<kind, n>>. (chat_advanced.py and  *)
(* chat_streaming.py also store the wall-clock time of the exchange, which *)
(* nothing reads back except the export.)                                  *)
(***************************************************************************)

Scripts == {"chat", "advanced", "realtime", "streaming", "streaming_v2"}

\* the history limit written in chat.py, chat_realtime.py, chat_streaming.py
\* and chat_streaming_v2.py
HistoryLimit == 20

DefaultPrompt == <<"d", "e", "f", "a", "u", "l", "t">>

FloatSettings == {"temperature", "top_p", "repeat_penalty"}
IntSettings   == {"max_tokens", "threads", "top_k"}

\* self.settings (chat_advanced.py, chat_streaming.py) or self.temperature and
\* self.max_tokens (chat_realtime.py, chat_streaming_v2.py) after __init__;
\* floats in hundredths
InitialSettings(s) ==
    CASE s \in {"advanced", "streaming"} ->
            [temperature |-> 70, max_tokens |-> 200, threads |-> 10,
             top_k |-> 40, top_p |-> 95, repeat_penalty |-> 110]
      [] s \in {"realtime", "streaming_v2"} ->
            [temperature |-> 70, max_tokens |-> 200]
      [] OTHER -> [none |-> 0]

\* the thread-count environment variables after __init__
InitialEnviron(s) ==
    IF s \in {"chat", "advanced", "streaming"}
    THEN [OMP_NUM_THREADS |-> 10, MKL_NUM_THREADS |-> 10]
    ELSE [OMP_NUM_THREADS |-> 10]

\* the commands each script's run() recognises
Commands(s) ==
    CASE s = "chat"         -> {"/exit", "/clear", "/help", "/save", "/system"}
      [] s = "advanced"     -> {"/exit", "/help", "/settings", "/clear", "/save",
                                "/export", "/system", "/temp", "/tokens"}
      [] s = "realtime"     -> {"/exit", "/clear", "/help"}
      [] s = "streaming"    -> {"/exit", "/help", "/settings", "/clear", "/save",
                                "/system", "/temp", "/tokens"}
      [] s = "streaming_v2" -> {"/exit", "/clear", "/help", "/temp", "/tokens"}

\* a dispatch in which the final else branch clears the history
Handler_ElseClears(s, word, args) == IF word \in Commands(s) THEN word ELSE "/clear"

\* the branch run() takes for the input "word args" (word starts with "/"):
\* chat.py compares the whole lowered input, the others its first word
Handler(s, word, args) ==
    IF s = "chat"
    THEN IF args = <<>> /\ word \in Commands(s) THEN word ELSE "unknown"
    ELSE IF word \in Commands(s) THEN word ELSE "unknown"

\* what the user can type: a command word and the rest of the line (stripped),
\* or the answer to a dialog's question
CommandWords == {"/exit", "/clear", "/help", "/save", "/export", "/system",
                 "/settings", "/temp", "/tokens", "/bogus"}
ArgInputs == {<<>>, <<"a", "b", "c">>, <<"0", ".", "5">>, <<"5", "0">>}
SettingNames == {"temperature", "max_tokens", "threads", "top_k", "top_p",
                 "repeat_penalty", "system_prompt", "cancel", "bogus"}

\* bounds of a session: turns taken, turns whose generation failed, commands given
MaxTurns    == 12
MaxFailures == 1
MaxCommands == 1

\* how a generation can end, as run() sees it
Outcomes == {"response", "empty", "no_delimiter", "nonzero_exit", "timeout",
             "launch_error", "interrupt"}

\* a mistaken slice: the first entries are kept instead of the last
KeepRecent_Oldest(history) ==
    IF Len(history) > HistoryLimit THEN SubSeq(history, 1, HistoryLimit) ELSE history

\* if len(self.conversation_history) > 20:
\*     self.conversation_history = self.conversation_history[-20:]
KeepRecent(history) ==
    IF Len(history) > HistoryLimit
    THEN SubSeq(history, Len(history) - HistoryLimit + 1, Len(history))
    ELSE history

\* a limit of an odd number of entries
Truncate_OddLimit(s, history) ==
    IF Len(history) > HistoryLimit - 1
    THEN SubSeq(history, Len(history) - HistoryLimit + 2, Len(history))
    ELSE history

\* what run() does to the transcript after an append: chat_advanced.py has no limit
Truncate(s, history) == IF s = "advanced" THEN history ELSE KeepRecent(history)

\* what a turn of script s does when its generation ends with outcome o:
\* whether the exchange is appended, with which kind of assistant message, where
\* the loop goes, and whether an engine process was launched
TurnEffect(s, o) ==
    LET appendOK   == [append |-> TRUE, kind |-> "response", to |-> "prompt", printed |-> "response"]
        appendErr  == [append |-> TRUE, kind |-> "error_text", to |-> "prompt", printed |-> "response"]
        appendNil  == [append |-> TRUE, kind |-> "empty", to |-> "prompt", printed |-> "response"]
        failure    == [append |-> FALSE, kind |-> "none", to |-> "prompt", printed |-> "failure"]
        silent     == [append |-> FALSE, kind |-> "none", to |-> "prompt", printed |-> "none"]
        goodbye    == [append |-> FALSE, kind |-> "none", to |-> "exited", printed |-> "goodbye"]
        traceback  == [append |-> FALSE, kind |-> "none", to |-> "crashed", printed |-> "traceback"]
        hang       == [append |-> FALSE, kind |-> "none", to |-> "hung", printed |-> "none"]
    IN  CASE s = "chat" ->
              \* generate_response always returns a string, run() always appends it;
              \* KeyboardInterrupt is caught neither by run() nor by main()
              (CASE o = "response" -> appendOK
                 [] o = "empty" -> appendNil
                 [] o \in {"no_delimiter", "nonzero_exit", "timeout", "launch_error"} -> appendErr
                 [] o = "interrupt" -> traceback)
          [] s = "advanced" ->
              \* success is True as soon as the delimiter is found
              (CASE o = "response" -> appendOK
                 [] o = "empty" -> appendNil
                 [] o \in {"no_delimiter", "nonzero_exit", "timeout", "launch_error"} -> failure
                 [] o = "interrupt" -> goodbye)
          [] s = "realtime" ->
              \* no timeout; Popen's exception reaches run()'s except Exception;
              \* the exit code is not looked at; an empty response is not appended
              (CASE o = "response" -> appendOK
                 [] o \in {"empty", "no_delimiter", "nonzero_exit"} -> silent
                 [] o = "timeout" -> hang
                 [] o = "launch_error" -> failure
                 [] o = "interrupt" -> silent)
          [] s = "streaming" ->
              \* success = bool(full_response); KeyboardInterrupt reaches run()
              (CASE o = "response" -> appendOK
                 [] o \in {"empty", "no_delimiter", "nonzero_exit", "launch_error"} -> failure
                 [] o = "timeout" -> hang
                 [] o = "interrupt" -> goodbye)
          [] s = "streaming_v2" ->
              (CASE o = "response" -> appendOK
                 [] o \in {"empty", "no_delimiter", "nonzero_exit"} -> silent
                 [] o = "timeout" -> hang
                 [] o = "launch_error" -> failure
                 [] o = "interrupt" -> silent)

\* the programs with a main() that checks for the model file
Programs == Scripts \cup {"kernel_tuning"}

\* the programs whose main() also checks for the binary they launch
\* (llama-cli, llama-bench)
ChecksEngine == {"streaming", "streaming_v2", "kernel_tuning"}

\* the launcher script chat_realtime.py writes, and the directory the
\* constructors of three chat classes create
LAUNCHER  == "bitnet-realtime.sh"
CHAT_LOGS == "chat_logs"

\* realtime main() with the launcher written before the model is looked for
Startup_LauncherFirst(s, h) ==
    LET launcher == IF s = "realtime" /\ ~h.launcher THEN {LAUNCHER} ELSE {}
    IN  IF ~h.model
        THEN [to |-> "startup_failed", written |-> launcher, printed |-> "error"]
        ELSE [to |-> "prompt", written |-> launcher, printed |-> "header"]

\* what main() does on host h, up to the first prompt: sys.exit(1) when the
\* model (or a binary it checks) is missing; otherwise what it creates
Startup(s, h) ==
    IF ~h.model \/ (s \in ChecksEngine /\ ~h.engine)
    THEN [to |-> "startup_failed", written |-> {}, printed |-> "error"]
    ELSE [to |-> IF s = "kernel_tuning" THEN "tuning" ELSE "prompt",
          written |-> (IF s = "realtime" /\ ~h.launcher THEN {LAUNCHER} ELSE {})
                      \cup (IF s \in {"advanced", "streaming", "streaming_v2"}
                            THEN {CHAT_LOGS} ELSE {}),
          printed |-> "header"]

\* float(text) or int(text), by the declared type of the setting
ParseSetting(setting, text) ==
    IF setting \in FloatSettings
    THEN [ok |-> IsFloatLiteral(text),
          value |-> IF IsFloatLiteral(text) THEN FloatOf(text) ELSE 0]
    ELSE [ok |-> IsIntLiteral(text),
          value |-> IF IsIntLiteral(text) THEN IntOf(text) ELSE 0]

\* a handler that stores 0 when the value does not parse
AssignParsed_ZeroOnError(st, setting, text) ==
    [st EXCEPT ![setting] = ParseSetting(setting, text).value]

\* try: self.settings[setting] = float(text) / int(text)
\* except: (nothing is assigned)
AssignParsed(st, setting, text) ==
    IF ParseSetting(setting, text).ok
    THEN [st EXCEPT ![setting] = ParseSetting(setting, text).value]
    ELSE st

\* change_settings: the environment variables follow the threads setting
EnvironAfter(env, setting, text) ==
    IF setting = "threads" /\ ParseSetting(setting, text).ok
    THEN [env EXCEPT !.OMP_NUM_THREADS = ParseSetting(setting, text).value,
                     !.MKL_NUM_THREADS = ParseSetting(setting, text).value]
    ELSE env

-----------------------------------------------------------------------------
(***************************************************************************)
(* The states in which one part of the model is not running.               *)
(***************************************************************************)

SessionIdle ==
    /\ script = "none" /\ pc = "idle"
    /\ conversation_history = <<>> /\ appended = <<>>
    /\ host = [model |-> FALSE, engine |-> FALSE, launcher |-> FALSE]
    /\ written = {}
    /\ system_prompt = <<>> /\ settings = [none |-> 0]
    /\ environ = [none |-> 0]
    /\ last = [input |-> "", handler |-> "none", setting |-> "", value |-> <<>>]
    /\ printed = "none"
    /\ turns = 0 /\ failures = 0 /\ commands = 0 /\ engine_runs = 0

ExtractIdle ==
    /\ stdout = <<>> /\ stderr = <<>> /\ returncode = 0
    /\ result = [by |-> "none"]

InvokeIdle ==
    /\ caller = [by |-> "none", at |-> "idle"]
    /\ process = "none" /\ elapsed = 0 /\ outcome = "none"

ParIdle ==
    /\ cpu_count = 0
    /\ prompts = <<>> /\ strategy = "none" /\ futures = <<>>
    /\ completion = <<>> /\ results = <<>> /\ par_pc = "idle"

ReadIdle ==
    /\ reader = "none" /\ unread = <<>> /\ rd = [by |-> "none"]
    /\ emitted = <<>> /\ read_pc = "idle"

NoFile == [exists |-> FALSE, text |-> <<>>]
None   == [is_none |-> TRUE, text |-> <<>>]

TuneIdle ==
    /\ kernel_config_ini = NoFile /\ ini_before = NoFile
    /\ original_kernel_config = None
    /\ configs = <<>> /\ tuner_results = <<>> /\ tune_log = <<>>
    /\ tune_pc = "idle"

\* the parser before the first argument
ParserStart == [at |-> 1, seen |-> {}, extras |-> <<>>, error |-> "none"]

CmdIdle == command = <<>> /\ cmd_by = "none" /\ argp = ParserStart /\ cmd_pc = "idle"

MonIdle ==
    /\ monitoring = FALSE /\ stats = <<>> /\ monitor_thread = "none"
    /\ run_no = 0 /\ raised = "none" /\ mon_pc = "idle"

PipeIdle ==
    /\ pipe_by = "none" /\ capacity = 0 /\ program = <<>> /\ child = "none"
    /\ out_pipe = <<>> /\ err_pipe = <<>> /\ pipe_pc = "idle"

LaterIdle == TuneIdle /\ CmdIdle /\ MonIdle /\ PipeIdle

-----------------------------------------------------------------------------
(***************************************************************************)
(* SpecExtract: one extraction from the output of an engine run that has   *)
(* ended. The engine's output is any concatenation of at most MaxFrags     *)
(* fragments, or the end-to-end scenario's output.                         *)
(***************************************************************************)

MaxFrags == 3

F_ok    == <<"o", "k">>
F_perf5 == <<"5"," ","t","o","k","e","n","s"," ","p","e","r"," ","s","e","c","o","n","d">>
F_perf2 == <<"2",".","5"," ","t","o","k","e","n","s"," ","p","e","r"," ","s","e","c","o","n","d">>
F_perf9 == <<"9"," ","t","o","k","e","n","s"," ","p","e","r"," ","s","e","c","o","n","d">>
F_boom  == <<"b","o","o","m">>

F_sp_ok == <<" ", "o", "k">>

Frags == {ASSISTANT, F_ok, F_sp_ok, <<" ">>, <<"\n">>, M_main, F_perf5, F_perf2}

RECURSIVE StreamsOf(_)
StreamsOf(n) ==
    IF n = 0 THEN {<<>>}
    ELSE LET shorter == StreamsOf(n - 1)
         IN  shorter \cup {p \o f : p \in shorter, f \in Frags}

ScenarioStdout ==
    <<"U","s","e","r",":"," ","h","i","\n","\n","A","s","s","i","s","t","a","n","t",":"," ","P","a","r","i","s"," ","i","s"," ","t","h","e"," ","c","a","p","i","t","a","l",".","\n","l","l","a","m","a","_","p","e","r","f",":"," ","e","v","a","l"," ","t","i","m","e"," ","="," ","1","0"," ","m","s"," ","/"," ","5"," ","t","o","k","e","n","s"," ","(","2"," ","m","s"," ","p","e","r"," ","t","o","k","e","n",","," ","5","0",".","0","0"," ","t","o","k","e","n","s"," ","p","e","r"," ","s","e","c","o","n","d",")">>

StdoutTexts == StreamsOf(MaxFrags) \cup {ScenarioStdout}
StderrTexts == {<<>>, F_perf9, F_boom}
ExitCodes   == {0, 1}

InitExtract ==
    /\ stdout \in StdoutTexts
    /\ stderr \in StderrTexts
    /\ returncode \in ExitCodes
    /\ result = [by |-> "none"]
    /\ SessionIdle /\ InvokeIdle /\ ParIdle /\ ReadIdle /\ LaterIdle

\* chat.py generate_response
ChatGenerateResponse ==
    /\ result.by = "none"
    /\ result' = ChatGenerate(stdout, stderr, returncode)
    /\ UNCHANGED <<stdout, stderr, returncode, sessionVars, invokeVars, parVars, readVars,
                   laterVars>>

\* chat_advanced.py generate_response
AdvancedGenerateResponse ==
    /\ result.by = "none"
    /\ result' = AdvancedGenerate(stdout, stderr, returncode)
    /\ UNCHANGED <<stdout, stderr, returncode, sessionVars, invokeVars, parVars, readVars,
                   laterVars>>

\* chat_streaming.py extract_response_streaming
StreamingExtractResponse ==
    /\ result.by = "none"
    /\ result' = StreamingExtract(stdout, stderr)
    /\ UNCHANGED <<stdout, stderr, returncode, sessionVars, invokeVars, parVars, readVars,
                   laterVars>>

\* benchmark.py run_benchmark: one run's output parsed
BenchmarkRun ==
    /\ result.by = "none"
    /\ result' = BenchmarkParse(stdout, stderr)
    /\ UNCHANGED <<stdout, stderr, returncode, sessionVars, invokeVars, parVars, readVars,
                   laterVars>>

NextExtract ==
    \/ ChatGenerateResponse
    \/ AdvancedGenerateResponse
    \/ StreamingExtractResponse
    \/ BenchmarkRun

SpecExtract == InitExtract /\ [][NextExtract]_vars

-----------------------------------------------------------------------------
(***************************************************************************)
(* Spec: a chat session. Each action is one pass of the loop of run().     *)
(***************************************************************************)

Init ==
    /\ script \in Programs
    /\ host \in {h \in [model : BOOLEAN, engine : BOOLEAN, launcher : BOOLEAN] :
                    h.launcher => script = "realtime"}
    /\ written = {}
    /\ pc = "startup"
    /\ conversation_history = <<>>
    /\ appended = <<>>
    /\ system_prompt = DefaultPrompt
    /\ settings = InitialSettings(script)
    /\ environ = InitialEnviron(script)
    /\ last = [input |-> "", handler |-> "none", setting |-> "", value |-> <<>>]
    /\ printed = "none"
    /\ turns = 0 /\ failures = 0 /\ commands = 0 /\ engine_runs = 0
    /\ ExtractIdle /\ InvokeIdle /\ ParIdle /\ ReadIdle /\ LaterIdle

\* main(): the checks before the loop, the construction of the chat object and
\* the entry into run() (or run_tuning())
Main ==
    /\ pc = "startup"
    /\ pc' = Startup(script, host).to
    /\ written' = Startup(script, host).written
    /\ printed' = Startup(script, host).printed
    /\ UNCHANGED <<host, script, conversation_history, appended, system_prompt,
                   settings, environ, last, turns, failures, commands,
                   engine_runs, extractVars, invokeVars, parVars, readVars,
                   laterVars>>

otherVars == <<startVars, extractVars, invokeVars, parVars, readVars, laterVars>>

\* the bookkeeping of a command: the input is a command the script dispatches
\* to handler h
Command(h, word, args) ==
    /\ pc = "prompt"
    /\ commands < MaxCommands
    /\ Handler(script, word, args) = h
    /\ commands' = commands + 1
    /\ UNCHANGED <<script, turns, failures, engine_runs, otherVars>>

\* if not user_input: continue
EmptyInput ==
    /\ pc = "prompt"
    /\ last' = [input |-> "", handler |-> "empty", setting |-> "", value |-> <<>>]
    /\ printed' = "none"
    /\ UNCHANGED <<script, pc, conversation_history, appended, system_prompt,
                   settings, environ, turns, failures, commands, engine_runs,
                   otherVars>>

\* EOFError or KeyboardInterrupt while input() waits
EndOfInput ==
    /\ pc = "prompt"
    /\ pc' = "exited"
    /\ last' = [input |-> "", handler |-> "eof", setting |-> "", value |-> <<>>]
    /\ printed' = "goodbye"
    /\ UNCHANGED <<script, conversation_history, appended, system_prompt,
                   settings, environ, turns, failures, commands, engine_runs,
                   otherVars>>

CmdExit ==
    \E word \in CommandWords, args \in ArgInputs :
        /\ Command("/exit", word, args)
        /\ pc' = "exited"
        /\ last' = [input |-> word, handler |-> "/exit", setting |-> "", value |-> <<>>]
        /\ printed' = "goodbye"
        /\ UNCHANGED <<conversation_history, appended, system_prompt, settings, environ>>

CmdClear ==
    \E word \in CommandWords, args \in ArgInputs :
        /\ Command("/clear", word, args)
        /\ conversation_history' = <<>>
        /\ appended' = <<>>
        /\ last' = [input |-> word, handler |-> "/clear", setting |-> "", value |-> <<>>]
        /\ printed' = "cleared"
        /\ UNCHANGED <<pc, system_prompt, settings, environ>>

\* /help, /save and /export print or write a file and change nothing else
CmdShow ==
    \E word \in CommandWords, args \in ArgInputs, h \in {"/help", "/save", "/export"} :
        /\ Command(h, word, args)
        /\ last' = [input |-> word, handler |-> h, setting |-> "", value |-> <<>>]
        /\ printed' = IF h = "/help" THEN "help" ELSE "saved"
        /\ UNCHANGED <<pc, conversation_history, appended, system_prompt,
                       settings, environ>>

\* /system: chat.py asks for the new prompt (change_system_prompt), the others
\* take it from the rest of the line; an empty one changes nothing
CmdSystem ==
    \E word \in CommandWords, args \in ArgInputs, answer \in ArgInputs :
        LET new == IF script = "chat" THEN Strip(answer) ELSE args
        IN  /\ Command("/system", word, args)
            /\ script # "chat" => answer = <<>>
            /\ system_prompt' = IF new # <<>> THEN new ELSE system_prompt
            /\ last' = [input |-> word, handler |-> "/system",
                        setting |-> "system_prompt", value |-> new]
            /\ printed' = IF new # <<>> THEN "updated" ELSE "current"
            /\ UNCHANGED <<pc, conversation_history, appended, settings, environ>>

\* /temp <value> and /tokens <n>
CmdQuickSet ==
    \E word \in CommandWords, args \in ArgInputs, h \in {"/temp", "/tokens"} :
        LET setting == IF h = "/temp" THEN "temperature" ELSE "max_tokens"
        IN  /\ Command(h, word, args)
            /\ settings' = AssignParsed(settings, setting, args)
            /\ last' = [input |-> word, handler |-> h, setting |-> setting, value |-> args]
            /\ printed' = IF ParseSetting(setting, args).ok THEN "updated" ELSE "invalid"
            /\ UNCHANGED <<pc, conversation_history, appended, system_prompt, environ>>

\* /settings: change_settings asks for the setting's name, then for its value
CmdSettings ==
    \E word \in CommandWords, args \in ArgInputs,
       setting \in SettingNames \cup {""}, answer \in ArgInputs :
        /\ Command("/settings", word, args)
        /\ last' = [input |-> word, handler |-> "/settings", setting |-> setting, value |-> answer]
        /\ UNCHANGED <<pc, conversation_history, appended>>
        /\ IF setting \in {"cancel", ""}
           THEN /\ answer = <<>>
                /\ printed' = "cancelled"
                /\ UNCHANGED <<system_prompt, settings, environ>>
           ELSE IF setting = "system_prompt"
           THEN /\ system_prompt' = IF Strip(answer) # <<>> THEN Strip(answer)
                                    ELSE system_prompt
                /\ printed' = IF Strip(answer) # <<>> THEN "updated" ELSE "none"
                /\ UNCHANGED <<settings, environ>>
           ELSE IF setting \in DOMAIN settings
           THEN /\ settings' = AssignParsed(settings, setting, answer)
                /\ environ' = EnvironAfter(environ, setting, answer)
                /\ printed' = IF ParseSetting(setting, answer).ok
                              THEN "updated" ELSE "invalid"
                /\ UNCHANGED system_prompt
           ELSE /\ answer = <<>>
                /\ printed' = "unknown_setting"
                /\ UNCHANGED <<system_prompt, settings, environ>>

CmdUnknown ==
    \E word \in CommandWords, args \in ArgInputs :
        /\ Command("unknown", word, args)
        /\ last' = [input |-> word, handler |-> "unknown", setting |-> "", value |-> <<>>]
        /\ printed' = "unknown"
        /\ UNCHANGED <<pc, conversation_history, appended, system_prompt,
                       settings, environ>>

\* the two entries a turn appends
Exchange(n, kind) == << <<"user", <<"input", n>> >>, <<"assistant", <<kind, n>> >> >>

\* any other input: generate a response, print it, append the exchange and
\* limit the history
Turn ==
    \E o \in Outcomes :
        LET eff == TurnEffect(script, o)
        IN  /\ pc = "prompt"
            /\ turns < MaxTurns
            /\ o # "response" => failures < MaxFailures
            /\ o = "launch_error" <=> ~host.engine
            /\ turns' = turns + 1
            /\ failures' = IF o = "response" THEN failures ELSE failures + 1
            /\ engine_runs' = IF o = "launch_error" THEN engine_runs ELSE engine_runs + 1
            /\ conversation_history' =
                  IF eff.append
                  THEN Truncate(script, conversation_history \o Exchange(turns + 1, eff.kind))
                  ELSE conversation_history
            /\ appended' = IF eff.append
                           THEN appended \o Exchange(turns + 1, eff.kind)
                           ELSE appended
            /\ pc' = eff.to
            /\ printed' = eff.printed
            /\ last' = [input |-> "message", handler |-> "turn", setting |-> "", value |-> <<>>]
            /\ UNCHANGED <<script, system_prompt, settings, environ, commands, otherVars>>

Next ==
    \/ Main
    \/ EmptyInput
    \/ EndOfInput
    \/ CmdExit
    \/ CmdClear
    \/ CmdShow
    \/ CmdSystem
    \/ CmdQuickSet
    \/ CmdSettings
    \/ CmdUnknown
    \/ Turn

Spec == Init /\ [][Next]_vars

-----------------------------------------------------------------------------
(***************************************************************************)
(* SpecInvoke: one engine invocation by a chat script or by a worker of    *)
(* parallel_inference.py, with the wall clock in seconds and an interrupt  *)
(* (KeyboardInterrupt) that can reach a chat script while it waits.        *)
(*                                                                         *)
(* caller.at: "call" (about to launch), "run" (inside subprocess.run),     *)
(* "launched" (Popen returned, before the try), "reading" (inside the try, *)
(* reading the output), "waiting" (after the loop: process.wait()),        *)
(* "prompt" / "returned" (control is back at run()'s prompt / at the       *)
(* pool), "exited", "crashed" (the script has ended).                      *)
(* process: "none", "running", "exited", "killed" (by subprocess.run),     *)
(* "terminated" (by process.terminate()).                                  *)
(***************************************************************************)

Callers == Scripts \cup {"parallel"}

\* the scripts that call subprocess.run(..., timeout=...) and those that
\* call subprocess.Popen and read the pipe themselves
RunCallers   == {"chat", "advanced", "parallel"}
PopenCallers == {"realtime", "streaming", "streaming_v2"}

ChatTimeout     == 60
AdvancedTimeout == 120
ParallelTimeout == 60

\* the timeout= argument of the caller's subprocess.run
TimeoutOf(c) ==
    CASE c = "chat"     -> ChatTimeout
      [] c = "advanced" -> AdvancedTimeout
      [] c = "parallel" -> ParallelTimeout

\* seconds the clock of the model can show
MaxClock == 125

\* where control is once the invocation is over
Back(c) == IF c = "parallel" THEN "returned" ELSE "prompt"

InFlight == caller.at \in {"run", "launched", "reading", "waiting"}

InitInvoke ==
    /\ caller \in {[by |-> c, at |-> "call"] : c \in Callers}
    /\ process = "none"
    /\ elapsed = 0
    /\ outcome = "none"
    /\ SessionIdle /\ ExtractIdle /\ ParIdle /\ ReadIdle /\ LaterIdle

notInvoke == <<sessionVars, extractVars, parVars, readVars, laterVars>>

\* subprocess.run(cmd, ...) / subprocess.Popen(cmd, ...) starts the engine
Launch ==
    /\ caller.at = "call"
    /\ caller' = [caller EXCEPT !.at = IF caller.by \in RunCallers THEN "run"
                                       ELSE "launched"]
    /\ process' = "running"
    /\ UNCHANGED <<elapsed, outcome, notInvoke>>

\* the binary cannot be started: the chat scripts report it at the prompt
\* (except Exception), the worker of parallel_inference.py lets it escape
LaunchFails ==
    /\ caller.at = "call"
    /\ caller' = [caller EXCEPT !.at = IF caller.by = "parallel" THEN "crashed"
                                       ELSE "prompt"]
    /\ outcome' = "launch_error"
    /\ UNCHANGED <<process, elapsed, notInvoke>>

\* a second passes while the engine runs; a running timeout is not overslept
Tick ==
    /\ caller.at \in {"run", "reading", "waiting"}
    /\ process = "running"
    /\ elapsed < MaxClock
    /\ caller.by \in RunCallers => elapsed < TimeoutOf(caller.by)
    /\ elapsed' = elapsed + 1
    /\ UNCHANGED <<caller, process, outcome, notInvoke>>

\* the engine exits by itself
ProcessExits ==
    /\ process = "running"
    /\ process' = "exited"
    /\ UNCHANGED <<caller, elapsed, outcome, notInvoke>>

\* subprocess.run returns the completed process
RunReturns ==
    /\ caller.at = "run"
    /\ process = "exited"
    /\ caller' = [caller EXCEPT !.at = Back(caller.by)]
    /\ outcome' = "completed"
    /\ UNCHANGED <<process, elapsed, notInvoke>>

\* subprocess.run kills the engine and raises TimeoutExpired, which the caller
\* turns into its "timed out" result
RunTimesOut ==
    /\ caller.at = "run"
    /\ process = "running"
    /\ elapsed = TimeoutOf(caller.by)
    /\ process' = "killed"
    /\ caller' = [caller EXCEPT !.at = Back(caller.by)]
    /\ outcome' = "timed_out"
    /\ UNCHANGED <<elapsed, notInvoke>>

\* the statements between Popen and the reading loop
EnterLoop ==
    /\ caller.at = "launched"
    /\ caller' = [caller EXCEPT !.at = "reading"]
    /\ UNCHANGED <<process, elapsed, outcome, notInvoke>>

\* the reading loop ends: chat_streaming_v2.py leaves it when poll() shows the
\* engine has exited, the others at the end of the output or at a technical
\* marker, when the engine may still be running
LoopEnds ==
    /\ caller.at = "reading"
    /\ caller.by = "streaming_v2" => process = "exited"
    /\ caller' = [caller EXCEPT !.at = "waiting"]
    /\ UNCHANGED <<process, elapsed, outcome, notInvoke>>

\* process.wait() returns and the reader returns its result
WaitReturns ==
    /\ caller.at = "waiting"
    /\ process = "exited"
    /\ caller' = [caller EXCEPT !.at = "prompt"]
    /\ outcome' = "completed"
    /\ UNCHANGED <<process, elapsed, notInvoke>>

\* KeyboardInterrupt inside subprocess.run: run kills the engine and re-raises;
\* chat.py catches it nowhere, chat_advanced.py's run() says goodbye
InterruptRun ==
    /\ caller.at = "run"
    /\ caller.by \in {"chat", "advanced"}
    /\ process' = IF process = "running" THEN "killed" ELSE process
    /\ caller' = [caller EXCEPT !.at = IF caller.by = "chat" THEN "crashed"
                                       ELSE "exited"]
    /\ outcome' = "interrupted"
    /\ UNCHANGED <<elapsed, notInvoke>>

\* KeyboardInterrupt in a script that reads the pipe itself: inside their try
\* chat_realtime.py and chat_streaming_v2.py terminate the engine and return
\* None; anywhere else, and everywhere in chat_streaming.py, the exception
\* reaches run(), which says goodbye and leaves the loop
InterruptReader ==
    /\ caller.at \in {"launched", "reading", "waiting"}
    /\ caller.by \in PopenCallers
    /\ outcome' = "interrupted"
    /\ IF caller.at = "reading" /\ caller.by \in {"realtime", "streaming_v2"}
       THEN /\ process' = "terminated"
            /\ caller' = [caller EXCEPT !.at = "prompt"]
       ELSE /\ process' = process
            /\ caller' = [caller EXCEPT !.at = "exited"]
    /\ UNCHANGED <<elapsed, notInvoke>>

NextInvoke ==
    \/ Launch
    \/ LaunchFails
    \/ Tick
    \/ ProcessExits
    \/ RunReturns
    \/ RunTimesOut
    \/ EnterLoop
    \/ LoopEnds
    \/ WaitReturns
    \/ InterruptRun
    \/ InterruptReader

SpecInvoke == InitInvoke /\ [][NextInvoke]_vars

(***************************************************************************)
(* Properties of an engine invocation (SpecInvoke).                        *)
(***************************************************************************)

LongestTimeout == AdvancedTimeout

\* C8: a caller that is waiting for its engine process has waited no longer
\* than the longest timeout of the scripts: past it the invocation has ended
\* (with the "timed out" result if the engine was still running).
C8_WaitIsBounded ==
    InFlight => elapsed <= LongestTimeout

\* C9: once chat_realtime.py, chat_streaming.py or chat_streaming_v2.py has
\* handled an interrupt (it is back at the prompt or has left the loop), the
\* engine process it launched is not running any more.
C9_InterruptTerminatesEngine ==
    (/\ caller.by \in PopenCallers
     /\ outcome = "interrupted")
    => process # "running"

-----------------------------------------------------------------------------
(***************************************************************************)
(* SpecPar: one call of parallel_inference(prompts, strategy=...).         *)
(*                                                                         *)
(* futures[i] is the future of the i-th submitted task: its state          *)
(* ("queued", "running", "done", "collected"), whether it had finished     *)
(* when as_completed was called (early), and what the worker returned.     *)
(* par_pc: "called", "submitted" (all tasks submitted, as_completed not    *)
(* yet called), "collecting", "returned", "raised".                        *)
(***************************************************************************)

MaxPrompts == 3
PromptTexts == {"p", "q"}
StrategyNames == {"balanced", "concurrent", "power", "other"}

\* strategies.get(strategy, (3, 4))[0]
MaxWorkers(name) ==
    CASE name = "balanced"   -> 3
      [] name = "concurrent" -> 6
      [] name = "power"      -> 2
      [] OTHER               -> 3

\* strategies.get(strategy, (3, 4))[1]
ThreadsPerWorker(name) ==
    CASE name = "balanced"   -> 4
      [] name = "concurrent" -> 2
      [] name = "power"      -> 6
      [] OTHER               -> 4

\* total_threads = max_workers * threads_per_worker
TotalThreads(name) == MaxWorkers(name) * ThreadsPerWorker(name)

\* hosts the script is run on: the ten threads its banner speaks of, and twelve
CpuCounts == {10, 12}

\* a dictionary keyed by the prompt: equal prompts share one entry
Watched_KeyedByPrompt(ps) ==
    {i \in 1..Len(ps) : \A j \in 1..(i - 1) : ps[j] # ps[i]}

\* the keys of future_to_prompt: one future per submitted task
Watched(ps) == 1..Len(ps)

\* what run_single_inference returns, by how its engine call ended; a worker
\* whose subprocess.run raises anything but TimeoutExpired returns nothing:
\* the exception is stored in the future
WorkerEnds == {"ok", "nonzero_exit", "timeout", "exception"}
WorkerResult(i, prompt, end) ==
    CASE end = "ok"           -> [task |-> i, prompt |-> prompt, output |-> "text", success |-> TRUE]
      [] end = "nonzero_exit" -> [task |-> i, prompt |-> prompt, output |-> "text", success |-> FALSE]
      [] end = "timeout"      -> [task |-> i, prompt |-> prompt, output |-> "Timeout", success |-> FALSE]
      [] end = "exception"    -> [task |-> i, prompt |-> prompt, output |-> "raise", success |-> FALSE]

NoResult == [task |-> 0, prompt |-> "", output |-> "", success |-> FALSE]

InitPar ==
    /\ cpu_count \in CpuCounts
    /\ prompts \in UNION {[1..n -> PromptTexts] : n \in 0..MaxPrompts}
    /\ strategy \in StrategyNames
    /\ futures = <<>>
    /\ completion = <<>>
    /\ results = <<>>
    /\ par_pc = "called"
    /\ SessionIdle /\ ExtractIdle /\ InvokeIdle /\ ReadIdle /\ LaterIdle

notPar == <<sessionVars, extractVars, invokeVars, readVars, laterVars>>

\* future_to_prompt = {executor.submit(run_single_inference, args): ...}
SubmitAll ==
    /\ par_pc = "called"
    /\ futures' = [i \in 1..Len(prompts) |->
                      [state |-> "queued", early |-> FALSE, result |-> NoResult]]
    /\ par_pc' = "submitted"
    /\ UNCHANGED <<cpu_count, prompts, strategy, completion, results, notPar>>

Running == {i \in DOMAIN futures : futures[i].state = "running"}
Queued  == {i \in DOMAIN futures : futures[i].state = "queued"}

\* a free worker of the pool takes the oldest queued task
WorkerStarts ==
    /\ par_pc \in {"submitted", "collecting"}
    /\ Queued # {}
    /\ Cardinality(Running) < MaxWorkers(strategy)
    /\ futures' = [futures EXCEPT ![SetMin(Queued)].state = "running"]
    /\ UNCHANGED <<cpu_count, prompts, strategy, completion, results, par_pc, notPar>>

\* a worker's run_single_inference ends and its future completes
WorkerFinishes ==
    \E i \in Running, end \in WorkerEnds :
        /\ futures' = [futures EXCEPT ![i].state = "done",
                                      ![i].result = WorkerResult(i, prompts[i], end)]
        /\ completion' = Append(completion, i)
        /\ UNCHANGED <<cpu_count, prompts, strategy, results, par_pc, notPar>>

\* concurrent.futures.as_completed(future_to_prompt) is called: the futures
\* already finished are set apart, to be yielded first
BeginCollect ==
    /\ par_pc = "submitted"
    /\ futures' = [i \in DOMAIN futures |->
                      [futures[i] EXCEPT !.early = (futures[i].state = "done")]]
    /\ par_pc' = "collecting"
    /\ UNCHANGED <<cpu_count, prompts, strategy, completion, results, notPar>>

Uncollected == {i \in Watched(prompts) : futures[i].state # "collected"}
EarlyDone   == {i \in Uncollected : futures[i].early}
LaterDone   == {i \in Uncollected : futures[i].state = "done" /\ ~futures[i].early}
Position(i) == CHOOSE k \in 1..Len(completion) : completion[k] = i

\* the futures as_completed can yield next: any of those finished before it
\* was called (they are kept in a set), then the others as they complete
Yieldable ==
    IF EarlyDone # {} THEN EarlyDone
    ELSE {i \in LaterDone : \A j \in LaterDone : Position(i) <= Position(j)}

\* one pass of the for loop: result = future.result(); results.append(result)
Collect ==
    /\ par_pc = "collecting"
    /\ \E i \in Yieldable :
        /\ futures' = [futures EXCEPT ![i].state = "collected"]
        /\ IF futures[i].result.output = "raise"
           THEN /\ par_pc' = "raised"
                /\ UNCHANGED results
           ELSE /\ results' = Append(results, futures[i].result)
                /\ UNCHANGED par_pc
        /\ UNCHANGED <<cpu_count, prompts, strategy, completion, notPar>>

\* the loop is over; the statistics divide by len(results)
Return ==
    /\ par_pc = "collecting"
    /\ Uncollected = {}
    /\ Queued = {} /\ Running = {}
    /\ par_pc' = IF Len(results) = 0 THEN "raised" ELSE "returned"
    /\ UNCHANGED <<cpu_count, prompts, strategy, futures, completion, results, notPar>>

NextPar ==
    \/ SubmitAll
    \/ WorkerStarts
    \/ WorkerFinishes
    \/ BeginCollect
    \/ Collect
    \/ Return

SpecPar == InitPar /\ [][NextPar]_vars

(***************************************************************************)
(* Properties of parallel_inference (SpecPar).                             *)
(***************************************************************************)

ResultTasks == [k \in 1..Len(results) |-> results[k].task]

\* one result for each submitted prompt, none lost and none repeated
OneResultPerPrompt ==
    /\ Len(results) = Len(prompts)
    /\ \A i \in 1..Len(prompts) :
          Cardinality({k \in 1..Len(results) : results[k].task = i}) = 1
    /\ \A k \in 1..Len(results) : results[k].prompt = prompts[results[k].task]

C11_ThreadsWithinHost ==
    par_pc \in {"submitted", "collecting", "returned"}
        => TotalThreads(strategy) <= cpu_count

-----------------------------------------------------------------------------
(***************************************************************************)
(* Properties of a chat session (Spec).                                    *)
(***************************************************************************)

\* C1: in every chat loop, whenever run() is back at its prompt (the turn has
\* been fully processed) the transcript holds at most K = 20 entries.
C1_TranscriptBounded ==
    pc = "prompt" => Len(conversation_history) <= HistoryLimit

IsSuffix(s, t) ==
    /\ Len(s) <= Len(t)
    /\ s = SubSeq(t, Len(t) - Len(s) + 1, Len(t))

\* C2: at every point of a session the transcript is a contiguous suffix, in
\* append order, of the entries appended since the last /clear: only the
\* oldest entries are ever missing.
C2_TranscriptIsRecentSuffix ==
    IsSuffix(conversation_history, appended)

\* a /clear was followed by enough turns for the limit to drop the oldest ones
C2_Witness ==
    /\ script = "realtime"
    /\ commands = 1
    /\ Len(appended) > HistoryLimit
    /\ appended[1][2][2] > 1
    /\ Len(conversation_history) = HistoryLimit
    /\ conversation_history[1] = appended[Len(appended) - HistoryLimit + 1]

NumericSettings == FloatSettings \cup IntSettings

\* the text is not a literal of the declared numeric type of the setting
NonNumericFor(setting, text) ==
    IF setting \in FloatSettings THEN ~IsFloatLiteral(text) ELSE ~IsIntLiteral(text)

\* the step just taken tried to set a numeric setting the script has
TriedToSet(handler, setting) ==
    /\ handler \in {"/settings", "/temp", "/tokens"}
    /\ setting \in NumericSettings

-----------------------------------------------------------------------------
(***************************************************************************)
(* Properties of the extractors (SpecExtract).                             *)
(***************************************************************************)

ChatExtractors == {"chat", "advanced", "streaming"}

\* a response extraction has run: chat.py and chat_advanced.py extract only
\* from the output of an engine that exited with code 0 (a non-zero exit is
\* reported as an error without looking at the stream), extract_response_streaming
\* never looks at the exit code
Extracted ==
    /\ result.by \in ChatExtractors
    /\ result.by \in {"chat", "advanced"} => returncode = 0

\* the 0-based indices at which the delimiter occurs in s
DelimiterAt(s) == {i \in 0..(Len(s) - Len(ASSISTANT)) : OccursAt(s, ASSISTANT, i)}

\* the text that follows the delimiter, when it occurs exactly once
AfterDelimiter(s) ==
    SliceFrom(s, (CHOOSE i \in DelimiterAt(s) : TRUE) + Len(ASSISTANT))

AllPrintable(s) == \A i \in 1..Len(s) : IsPrintable(s[i])

\* the stream holds the delimiter exactly once, followed only by printable text
DelimiterOnceThenPrintable(s) ==
    /\ Cardinality(DelimiterAt(s)) = 1
    /\ AllPrintable(AfterDelimiter(s))

MarkersOf(by) ==
    CASE by = "chat" -> ChatMarkers
      [] by = "advanced" -> AdvancedMarkers
      [] by = "streaming" -> StreamingMarkers

NoMarkerIn(s, markers) == \A k \in 1..Len(markers) : ~Contains(s, markers[k])

\* C4 as stated: for every stream that holds the delimiter exactly once followed
\* only by printable text, the extractor returns exactly the text after the
\* delimiter, trimmed of leading and trailing whitespace.
C4_ExactTextAsStated ==
    (Extracted /\ DelimiterOnceThenPrintable(stdout))
        => result.response = Strip(AfterDelimiter(stdout))

\* C4 as amended: the same, for the streams whose text after the delimiter holds
\* none of the extractor's diagnostic markers.
C4_ExactText ==
    (/\ Extracted
     /\ DelimiterOnceThenPrintable(stdout)
     /\ NoMarkerIn(AfterDelimiter(stdout), MarkersOf(result.by)))
        => result.response = Strip(AfterDelimiter(stdout))

\* C4's case: the streaming extraction of a stream with a diagnostic line before
\* the delimiter and padded text after it, returned trimmed
C4_Witness ==
    /\ result.by = "streaming"
    /\ DelimiterOnceThenPrintable(stdout)
    /\ NoMarkerIn(AfterDelimiter(stdout), MarkersOf(result.by))
    /\ stdout = M_main \o ASSISTANT \o <<" ", "o", "k">>
    /\ AfterDelimiter(stdout) # Strip(AfterDelimiter(stdout))
    /\ result.response = F_ok

\* C5 as stated: for every stream that never holds the delimiter, the extractor
\* returns an empty response together with success = false.
C5_NoDelimiterEmptyFailure ==
    (Extracted /\ ~Contains(stdout, ASSISTANT))
        => (/\ result.response = <<>>
            /\ result.by # "chat"
            /\ result.success = FALSE)

\* the values of the performance substrings of a text, in order
PerfValues(s) ==
    LET groups == ReFindAll(s)
    IN  [k \in 1..Len(groups) |-> FloatOfUnsigned(groups[k])]

\* the tokens-per-second value a result reports (chat.py reports its text)
ReportsTokensPerSecond(r, group) ==
    IF r.by = "chat"
    THEN r.perf_info = <<" ", "[">> \o group \o <<" ","t","o","k","/","s","]">>
    ELSE /\ (r.by = "advanced" => r.success)
         /\ r.tokens_per_second = FloatOfUnsigned(group)

\* C6 as stated: when the captured output holds two performance substrings
\* "X tokens per second" and later "Y tokens per second" with X # Y, the
\* reported value is Y (here both are on stdout and stderr is empty).
C6_LastPerformanceWins ==
    (/\ result.by \in ChatExtractors \cup {"benchmark"}
     /\ returncode = 0
     /\ Contains(stdout, ASSISTANT)
     /\ stderr = <<>>
     /\ Len(ReFindAll(stdout)) = 2
     /\ PerfValues(stdout)[1] # PerfValues(stdout)[2])
        => ReportsTokensPerSecond(result, ReFindAll(stdout)[2])

PARIS == <<"P","a","r","i","s"," ","i","s"," ","t","h","e"," ","c","a","p","i","t","a","l",".">>

\* C7 as stated: on the end-to-end scenario's output, printed by an engine that
\* exits with code 0, the extractor yields the response "Paris is the capital.",
\* the metric 50.0 and success = true.
C7_EndToEndScenario ==
    (/\ result.by \in {"advanced", "streaming"}
     /\ stdout = ScenarioStdout /\ stderr = <<>> /\ returncode = 0)
        => (/\ result.response = PARIS
            /\ result.tokens_per_second = 5000
            /\ result.success = TRUE)

\* C12: when the engine exits with a non-zero code and has written diagnostic
\* text, what the chat script shows for the turn carries the excerpt (at most
\* 200 characters) of that text.
C12_NonZeroExitReported ==
    (/\ result.by \in ChatExtractors
     /\ returncode # 0
     /\ stderr # <<>>)
    => Contains(result.response, SliceTo(UniversalNewlines(stderr), 200))

-----------------------------------------------------------------------------
(***************************************************************************)
(* Properties of the start of a program and of failed launches (Spec).     *)
(***************************************************************************)

\* C13: on a host where the program a chat script launches cannot be started,
\* the script does not come back to its prompt after a turn: the failure is
\* fatal.
C13_LaunchFailureIsFatal ==
    (/\ script \in Scripts
     /\ ~host.engine
     /\ turns > 0)
    => pc # "prompt"

\* C14: when the model file is missing, a program that has left main()'s
\* checks has exited with status 1 after reporting the error: it has read no
\* input, taken no turn, launched no engine and created no file.
C14_MissingModelStopsAtStartup ==
    (~host.model /\ pc # "startup")
    => /\ pc = "startup_failed"
       /\ printed = "error"
       /\ written = {}
       /\ engine_runs = 0
       /\ turns = 0 /\ commands = 0
       /\ last.handler = "none"

\* chat_realtime.py stopped for a missing model on a host that has no launcher
\* script yet
C14_Witness ==
    /\ script = "realtime"
    /\ ~host.model /\ ~host.launcher
    /\ pc = "startup_failed"
    /\ written = {}

-----------------------------------------------------------------------------
(***************************************************************************)
(* SpecRead: one response read from the engine. The engine has written a   *)
(* byte stream to its stdout and exits with code 0; chat.py and            *)
(* chat_advanced.py receive the whole of it from subprocess.run,           *)
(* chat_streaming.py reads it one character at a time, chat_realtime.py    *)
(* one line at a time and chat_streaming_v2.py in chunks of bytes of       *)
(* whatever size the pipe delivers.                                        *)
(***************************************************************************)

Readers == {"chat", "advanced", "streaming", "realtime", "streaming_v2"}

\* the two bytes of a two-byte UTF-8 character and the character they encode
LEAD_BYTE == "0xC3"
CONT_BYTE == "0xA9"
E_ACUTE   == "U+00E9"

\* bytes.decode('utf-8', errors='ignore'): a complete sequence becomes its
\* character; a lead byte without its continuation byte and a continuation
\* byte without its lead byte are dropped
RECURSIVE DecodeIgnore(_)
DecodeIgnore(bytes) ==
    LET special == {i \in 1..Len(bytes) : bytes[i] \in {LEAD_BYTE, CONT_BYTE}}
        k       == SetMin(special)
        whole   == bytes[k] = LEAD_BYTE /\ k < Len(bytes) /\ bytes[k + 1] = CONT_BYTE
    IN  IF special = {} THEN bytes
        ELSE SubSeq(bytes, 1, k - 1)
             \o (IF whole THEN <<E_ACUTE>> ELSE <<>>)
             \o DecodeIgnore(SubSeq(bytes, (IF whole THEN k + 2 ELSE k + 1), Len(bytes)))

\* chat_realtime.py: the local variables of generate_streaming before the loop
RealtimeStart == [in_response |-> FALSE, response |-> <<>>, should_stop |-> FALSE]

\* chat_realtime.py: what the next readline() returns
NextLine(text) ==
    LET k == Find(text, <<"\n">>)
    IN  IF k = -1 THEN text ELSE SliceTo(text, k + 1)

\* chat_realtime.py: one pass of the loop over the lines, for the line line
RealtimeLine(st, line) ==
    LET found  == Contains(line, ASSISTANT) /\ ~st.in_response
        line1  == IF found THEN Split1(line, ASSISTANT)[2] ELSE line
        k      == FirstMarkerIn(line1, StreamingMarkers)
        line2  == IF k # 0 THEN First(Split(line1, StreamingMarkers[k])) ELSE line1
        clean_line == SelectSeq(line2, LAMBDA c : IsPrintable(c) \/ c \in {"\n", "\t", " "})
    IN  IF ~(st.in_response \/ found) THEN st
        ELSE [in_response |-> TRUE, response |-> st.response \o clean_line,
              should_stop |-> k # 0]

\* chat_streaming_v2.py: the markers of stream_response, in the order tried
V2Markers == <<M_llama, M_llm, M_ggml, M_build, M_main>>

\* chat_streaming_v2.py: the local variables of stream_response before the loop
V2Start == [response_started |-> FALSE, response_text |-> <<>>, buffer |-> <<>>]

\* chat_streaming_v2.py: one pass of the loop in which read(1024) returned chunk
V2Chunk(st, chunk) ==
    LET decoded == DecodeIgnore(st.buffer \o chunk)
        found   == ~st.response_started /\ Contains(decoded, ASSISTANT)
        text1   == IF found THEN Last(Split(decoded, ASSISTANT)) ELSE decoded
        k       == FirstMarkerIn(text1, V2Markers)
        text2   == IF k # 0 THEN First(Split(text1, V2Markers[k])) ELSE text1
    IN  IF ~(st.response_started \/ found)
        THEN [st EXCEPT !.buffer = <<>>]
        ELSE [response_started |-> TRUE,
              response_text |-> st.response_text \o KeepPrintable(text2),
              buffer |-> <<>>]

\* chat_streaming.py: what one pass of the read loop prints
StreamingPrinted(st, char) ==
    LET st1 == StreamingRead(st, char)
    IN  IF ~st1.response_started THEN <<>>
        ELSE IF st1.marker_found
             THEN IF Len(st1.response_lines) > Len(st.response_lines)
                  THEN Last(st1.response_lines) ELSE <<>>
        ELSE IF IsPrintable(char) \/ char \in {"\n", "\t"} THEN <<char>>
        ELSE <<>>

\* chat_streaming.py: the response extract_response_streaming builds after
\* its loop
StreamingFinal(st) ==
    LET lines == IF Strip(st.current_line) # <<>> /\ st.response_started
                 THEN Append(st.response_lines, RStrip(st.current_line))
                 ELSE st.response_lines
    IN  KeepPrintable(Strip(JoinLines(lines)))

MaxParts == 4
MaxChunk == 11

R_hi  == <<" ", "H", "i">>
R_nl  == <<"\n">>
R_esc == <<"ESC">>
R_e   == <<LEAD_BYTE, CONT_BYTE>>

ReadFrags == {ASSISTANT, R_hi, R_nl, M_main, M_build, R_esc, R_e}

\* the byte streams the engine may have written
RECURSIVE ReadStreamsOf(_)
ReadStreamsOf(n) ==
    IF n = 0 THEN {<<>>}
    ELSE LET shorter == ReadStreamsOf(n - 1)
         IN  shorter \cup {s \o f : s \in shorter, f \in ReadFrags}

ReadStreams == ReadStreamsOf(MaxParts)

\* what a reader in text mode receives for the bytes written: the decoded
\* characters with universal newlines
TextOf(bytes) == UniversalNewlines(DecodeIgnore(bytes))

InitRead ==
    /\ reader \in Readers
    /\ stdout \in ReadStreams
    /\ stderr = <<>> /\ returncode = 0 /\ result = [by |-> "none"]
    /\ unread = IF reader = "streaming_v2" THEN stdout ELSE TextOf(stdout)
    /\ rd = CASE reader = "streaming"    -> StreamingStart
              [] reader = "realtime"     -> RealtimeStart
              [] reader = "streaming_v2" -> V2Start
              [] OTHER                   -> [by |-> "none"]
    /\ emitted = <<>>
    /\ read_pc = "reading"
    /\ SessionIdle /\ InvokeIdle /\ ParIdle /\ LaterIdle

notRead == <<sessionVars, invokeVars, parVars, stdout, stderr, returncode, reader,
            laterVars>>

\* chat.py, chat_advanced.py: subprocess.run returns the whole output and
\* generate_response extracts the response from it
GenerateResponse ==
    /\ reader \in {"chat", "advanced"} /\ read_pc = "reading"
    /\ result' = IF reader = "chat"
                 THEN ChatGenerate(DecodeIgnore(stdout), stderr, returncode)
                 ELSE AdvancedGenerate(DecodeIgnore(stdout), stderr, returncode)
    /\ unread' = <<>>
    /\ read_pc' = "returned"
    /\ UNCHANGED <<rd, emitted, notRead>>

\* chat_streaming.py: one pass of the loop of extract_response_streaming
ReadChar ==
    /\ reader = "streaming" /\ read_pc = "reading"
    /\ unread # <<>> /\ ~rd.marker_found
    /\ rd' = StreamingRead(rd, Head(unread))
    /\ emitted' = emitted \o StreamingPrinted(rd, Head(unread))
    /\ unread' = Tail(unread)
    /\ UNCHANGED <<read_pc, result, notRead>>

\* chat_streaming.py: the loop has ended at a marker or at the end of the
\* stream; extract_response_streaming reads what is left and returns
StreamingReturns ==
    /\ reader = "streaming" /\ read_pc = "reading"
    /\ unread = <<>> \/ rd.marker_found
    /\ result' = [by |-> "streaming", response |-> StreamingFinal(rd),
                  success |-> StreamingFinal(rd) # <<>>]
    /\ unread' = <<>>
    /\ read_pc' = "returned"
    /\ UNCHANGED <<rd, emitted, notRead>>

\* chat_realtime.py: one pass of the loop of generate_streaming
ReadLine ==
    /\ reader = "realtime" /\ read_pc = "reading"
    /\ unread # <<>> /\ ~rd.should_stop
    /\ LET line == NextLine(unread)
       IN  /\ rd' = RealtimeLine(rd, line)
           /\ emitted' = emitted \o SliceFrom(rd'.response, Len(rd.response))
           /\ unread' = SliceFrom(unread, Len(line))
    /\ UNCHANGED <<read_pc, result, notRead>>

\* chat_realtime.py: the loop has ended at a marker or at the end of the
\* stream; generate_streaming returns
RealtimeReturns ==
    /\ reader = "realtime" /\ read_pc = "reading"
    /\ unread = <<>> \/ rd.should_stop
    /\ result' = [by |-> "realtime", response |-> Strip(rd.response)]
    /\ read_pc' = "returned"
    /\ UNCHANGED <<unread, rd, emitted, notRead>>

\* chat_streaming_v2.py: one pass of the loop of stream_response in which the
\* pipe delivered the next n bytes
ReadChunk ==
    /\ reader = "streaming_v2" /\ read_pc = "reading"
    /\ \E n \in 1..MaxChunk :
        /\ n <= Len(unread)
        /\ rd' = V2Chunk(rd, SliceTo(unread, n))
        /\ emitted' = emitted \o SliceFrom(rd'.response_text, Len(rd.response_text))
        /\ unread' = SliceFrom(unread, n)
    /\ UNCHANGED <<read_pc, result, notRead>>

\* chat_streaming_v2.py: poll() reports that the engine has exited; the loop
\* ends without reading what is still in the pipe and stream_response returns
V2Returns ==
    /\ reader = "streaming_v2" /\ read_pc = "reading"
    /\ result' = [by |-> "streaming_v2",
                  response |-> KeepPrintable(Strip(rd.response_text))]
    /\ read_pc' = "returned"
    /\ UNCHANGED <<unread, rd, emitted, notRead>>

NextRead ==
    \/ GenerateResponse
    \/ ReadChar
    \/ StreamingReturns
    \/ ReadLine
    \/ RealtimeReturns
    \/ ReadChunk
    \/ V2Returns

SpecRead == InitRead /\ [][NextRead]_vars

\* the response the character reader builds step by step is the one
\* StreamingExtract computes for the whole output
StreamingStepwiseAgrees ==
    (reader = "streaming" /\ read_pc = "returned")
    => result.response = StreamingExtract(DecodeIgnore(stdout), <<>>).response

-----------------------------------------------------------------------------
(***************************************************************************)
(* Properties of the streaming readers (SpecRead)                          *)
(***************************************************************************)

\* the reader has seen the delimiter: it is emitting, no longer scanning
Emitting ==
    CASE reader = "streaming"    -> rd.response_started
      [] reader = "realtime"     -> rd.in_response
      [] reader = "streaming_v2" -> rd.response_started
      [] OTHER                   -> FALSE

\* the text the reader has read so far, as characters
ReadSoFar ==
    IF reader = "streaming_v2"
    THEN DecodeIgnore(SliceTo(stdout, Len(stdout) - Len(unread)))
    ELSE SliceTo(TextOf(stdout), Len(TextOf(stdout)) - Len(unread))

\* the part of text that follows its first delimiter
AfterFirstDelimiter(text) ==
    IF Contains(text, ASSISTANT) THEN Split1(text, ASSISTANT)[2] ELSE <<>>

\* s can be obtained from t by deleting characters
RECURSIVE IsSubsequence(_, _)
IsSubsequence(s, t) ==
    IF s = <<>> THEN TRUE
    ELSE IF t = <<>> THEN FALSE
    ELSE IF Head(s) = Head(t) THEN IsSubsequence(Tail(s), Tail(t))
    ELSE IsSubsequence(s, Tail(t))

\* C15: what a streaming reader has printed is made only of characters it
\* read after the delimiter, in the order read: nothing read while scanning
\* for the delimiter (the delimiter included) is ever emitted.
C15_NothingScannedIsEmitted ==
    reader \in Readers => IsSubsequence(emitted, AfterFirstDelimiter(ReadSoFar))

\* the marker list of the reader's script
ReaderMarkers == IF reader = "streaming_v2" THEN V2Markers ELSE StreamingMarkers

\* C16: the response returned by the line reader of chat_realtime.py or by the
\* chunk reader of chat_streaming_v2.py holds none of the script's diagnostic
\* markers, whatever the order of the markers in a line and wherever the
\* reads cut the stream.
C16_NoMarkerInResponse ==
    (read_pc = "returned" /\ reader \in {"realtime", "streaming_v2"})
        => NoMarkerIn(result.response, ReaderMarkers)

\* only printable characters, newlines and tabs
PrintableOrLayout(s) == \A i \in 1..Len(s) : IsPrintable(s[i]) \/ s[i] \in {"\n", "\t"}

-----------------------------------------------------------------------------
(***************************************************************************)
(* Properties of the commands (Spec)                                       *)
(***************************************************************************)

\* C18: a step that handles an input beginning with "/" launches no engine and
\* takes no turn; it leaves the transcript as it was unless the input's first
\* word is /clear, and the /clear branch leaves the transcript empty and the
\* settings, the environment variables and the system prompt as they were.
C18_CommandsLeaveTranscript ==
    [][ (commands' # commands)
        => (/\ last'.input \in CommandWords
            /\ engine_runs' = engine_runs
            /\ turns' = turns /\ failures' = failures
            /\ conversation_history' \in {conversation_history, <<>>}
            /\ conversation_history' # conversation_history => last'.input = "/clear"
            /\ last'.handler = "/clear"
               => (/\ conversation_history' = <<>>
                   /\ settings' = settings
                   /\ environ' = environ
                   /\ system_prompt' = system_prompt)) ]_vars

\* chat_streaming_v2.py after /clear, given when the transcript held the two
\* entries of a turn
C18_Witness ==
    /\ script = "streaming_v2"
    /\ last.input = "/clear" /\ last.handler = "/clear"
    /\ commands = 1 /\ turns = 1 /\ engine_runs = 1
    /\ conversation_history = <<>>
    /\ settings = InitialSettings(script)

\* the text that follows the last delimiter of s
AfterLastDelimiter(s) == SliceFrom(s, RFind(s, ASSISTANT) + Len(ASSISTANT))

\* the stream is an echoed prompt with history (the delimiter once per earlier
\* assistant turn and once at its end) followed by generated text that is
\* printable and holds no marker
EchoedHistory(s) ==
    /\ Cardinality(DelimiterAt(s)) >= 2
    /\ AllPrintable(AfterLastDelimiter(s))
    /\ NoMarkerIn(AfterLastDelimiter(s), StreamingMarkers)

\* C19: for an echoed prompt that holds the delimiter several times, chat.py,
\* chat_advanced.py and chat_streaming.py return the text after the final
\* delimiter, trimmed, and nothing of the echoed history.
C19_StartsAtFinalDelimiter ==
    (/\ reader \in {"chat", "advanced", "streaming"}
     /\ read_pc = "returned"
     /\ EchoedHistory(TextOf(stdout)))
        => result.response = Strip(AfterLastDelimiter(TextOf(stdout)))

\* C20: while chat_streaming_v2.py is emitting a response that holds no marker
\* and no second delimiter, what it has emitted is the decoding of all the
\* bytes it has read after the delimiter, wherever the reads cut the stream:
\* a character whose bytes arrive in two reads is emitted whole.
C20_NoByteLostAtReadBoundary ==
    (/\ reader = "streaming_v2"
     /\ rd.response_started
     /\ Cardinality(DelimiterAt(ReadSoFar)) = 1
     /\ NoMarkerIn(AfterFirstDelimiter(ReadSoFar), V2Markers))
        => emitted = KeepPrintable(AfterFirstDelimiter(ReadSoFar))

-----------------------------------------------------------------------------
(***************************************************************************)
(* Properties of the prompt built from the transcript (Spec)               *)
(***************************************************************************)

\* chat.py: the number of transcript entries generate_response puts in the prompt
ChatWindow == 5

\* history[-n:]
LastEntries(history, n) ==
    IF Len(history) > n THEN SubSeq(history, Len(history) - n + 1, Len(history))
    ELSE history

\* chat.py: the segments of full_prompt: the system prompt, one "User: ..." or
\* "Assistant: ..." segment per entry of conversation_history[-5:], the current
\* input, and the final delimiter
ChatPrompt(system, history, input) ==
    << <<"system", system>> >>
    \o LastEntries(history, ChatWindow)
    \o << <<"user", input>>, <<"delimiter", <<>> >> >>

\* the history part of the prompt chat.py builds for the next message
ChatHistoryPart ==
    LET full_prompt == ChatPrompt(system_prompt, conversation_history, <<"input", turns + 1>>)
    IN  SubSeq(full_prompt, 2, Len(full_prompt) - 2)

\* C21: whenever chat.py is at its prompt with a non-empty transcript, the
\* history part of the prompt it builds for the next message is made of
\* complete user/assistant pairs: it begins with a user message and has an
\* even number of entries.
C21_PromptHistoryIsWholeExchanges ==
    (script = "chat" /\ pc = "prompt" /\ conversation_history # <<>>)
        => (/\ ChatHistoryPart[1][1] = "user"
            /\ Len(ChatHistoryPart) % 2 = 0)

-----------------------------------------------------------------------------
(***************************************************************************)
(* Properties of the transcript's entries (Spec)                           *)
(***************************************************************************)

\* C27: no assistant entry of the transcript is the message of a failed
\* generation (non-zero exit, timeout, exception or missing delimiter): such
\* a turn appends nothing.
C27_NoErrorTextInTranscript ==
    \A i \in 1..Len(conversation_history) :
        conversation_history[i][2][1] # "error_text"

\* the roles of the entries alternate, beginning with a user entry and ending
\* with an assistant entry
WholeExchanges(history) ==
    /\ Len(history) % 2 = 0
    /\ \A i \in 1..Len(history) :
          history[i][1] = IF i % 2 = 1 THEN "user" ELSE "assistant"

\* chat_advanced.py, chat_streaming.py, chat_streaming_v2.py: the number of
\* transcript entries put in the prompt
PromptWindow == 6

\* C28: in every chat script the transcript is a sequence of whole exchanges
\* (user, assistant, user, assistant, ...), and so is the window of its last
\* 6 entries from which a prompt is built.
C28_TranscriptAlternates ==
    script \in Scripts
        => (/\ WholeExchanges(conversation_history)
            /\ WholeExchanges(LastEntries(conversation_history, PromptWindow)))

\* chat_streaming_v2.py at its prompt after a /clear and then eleven turns:
\* the transcript has been cut to its last 20 entries
C28_Witness ==
    /\ script = "streaming_v2" /\ pc = "prompt"
    /\ commands = 1 /\ last.handler = "turn"
    /\ Len(appended) = 22
    /\ Len(conversation_history) = HistoryLimit
    /\ conversation_history[1] = <<"user", <<"input", appended[3][2][2]>> >>

-----------------------------------------------------------------------------
(***************************************************************************)
(* Properties of the chunk reader of chat_streaming_v2.py (SpecRead)       *)
(***************************************************************************)

\* C25: when stream_response returns, nothing the engine wrote to stdout is
\* left unread in the pipe.
C25_NothingLeftUnread ==
    (reader = "streaming_v2" /\ read_pc = "returned") => unread = <<>>

\* the response stream_response returns when the whole stream arrives in one read
V2SingleChunk(bytes) == KeepPrintable(Strip(V2Chunk(V2Start, bytes).response_text))

\* C26: when stream_response has read the whole stream, the response it
\* returns is the one it returns for the same stream read in a single chunk,
\* however the reads cut the stream.
C26_ChunkingDoesNotMatter ==
    (reader = "streaming_v2" /\ read_pc = "returned" /\ unread = <<>>)
        => result.response = V2SingleChunk(stdout)
-----------------------------------------------------------------------------
(***************************************************************************)
(* SpecTune: KernelTuner.run_tuning of utils/kernel_tuning.py. The file    *)
(* include/kernel_config.ini is a record: whether it exists and its text,  *)
(* a sequence of lines. The codegen scripts are not part of the sources;   *)
(* a successful codegen rewrites the file with the tested parameters.      *)
(***************************************************************************)

MaxConfigs == 3

\* the first n elements of a list: list[:n]
Take(list, n) == SubSeq(list, 1, IF Len(list) < n THEN Len(list) ELSE n)

Triple(BM, BK, bm) == [BM |-> <<BM, BM, BM>>, BK |-> <<BK, BK, BK>>, bm |-> <<bm, bm, bm>>]

\* KernelTuner.generate_test_configs: the nested loops over BM, BK and bm
GenerateTestConfigs(is_arm) ==
    LET bm_values == IF is_arm THEN <<32, 64>> ELSE <<32>>
        BM_values == <<128, 160, 256, 320>>
        BK_values == IF is_arm THEN <<64, 96, 128>> ELSE <<64, 96, 128, 192>>
        nK        == Len(BK_values)
        nm        == Len(bm_values)
        all       == [n \in 1..(Len(BM_values) * nK * nm) |->
                        [BM |-> BM_values[((n - 1) \div (nK * nm)) + 1],
                         BK |-> BK_values[(((n - 1) \div nm) % nK) + 1],
                         bm |-> bm_values[((n - 1) % nm) + 1]]]
        Allowed(c) == c.BM % c.bm = 0 /\ c.BK % 32 = 0
        kept      == SelectSeq(all, Allowed)
    IN  Take([n \in 1..Len(kept) |-> Triple(kept[n].BM, kept[n].BK, kept[n].bm)], 10)

\* the list main() installs for --quick
QuickConfigs ==
    << [BM |-> <<160, 160, 160>>, BK |-> <<96, 96, 96>>,    bm |-> <<32, 32, 32>>],
       [BM |-> <<160, 160, 160>>, BK |-> <<128, 128, 128>>, bm |-> <<32, 32, 32>>],
       [BM |-> <<320, 320, 320>>, BK |-> <<96, 96, 96>>,    bm |-> <<32, 32, 32>>],
       [BM |-> <<160, 320, 320>>, BK |-> <<64, 128, 64>>,   bm |-> <<32, 32, 32>>] >>

\* the text a successful codegen writes to kernel_config.ini for a configuration
IniText(config) ==
    << [key |-> "BM", value |-> config.BM],
       [key |-> "BK", value |-> config.BK],
       [key |-> "bm", value |-> config.bm] >>

\* the contents kernel_config.ini can have before tuning: no file, an empty
\* file, the file of an earlier build
IniFiles ==
    { NoFile,
      [exists |-> TRUE, text |-> <<>>],
      [exists |-> TRUE, text |-> IniText([BM |-> <<160, 320, 320>>, BK |-> <<96, 96, 96>>,
                                          bm |-> <<32, 32, 32>>])] }

\* KernelTuner.backup_current_config
BackupCurrentConfig(file, original) ==
    IF file.exists THEN [is_none |-> FALSE, text |-> file.text] ELSE original

\* the truth value Python gives to None and to a string
Truthy(value) == ~value.is_none /\ value.text # <<>>

\* KernelTuner.restore_original_config
RestoreOriginalConfig(file, original) ==
    IF Truthy(original) THEN [exists |-> TRUE, text |-> original.text] ELSE file

\* what llama-bench can do: its exit code and the t/s value of the first table
\* row in its output (0 when no row parses), a timeout, a failure to start
TPS == 42
BenchOutcomes ==
    [kind : {"exited"}, returncode : {0, 1}, tokens_per_second : {0, TPS}]
        \cup {[kind |-> "timeout", returncode |-> 0, tokens_per_second |-> 0],
              [kind |-> "error", returncode |-> 0, tokens_per_second |-> 0]}

\* the result benchmark_config returns after the benchmark step
BenchmarkResult(config, bench) ==
    CASE bench.kind = "timeout" -> [config |-> config, status |-> "timeout", tokens_per_second |-> 0]
      [] bench.kind = "error"   -> [config |-> config, status |-> "error", tokens_per_second |-> 0]
      [] OTHER -> [config |-> config, status |-> "success",
                   tokens_per_second |-> bench.tokens_per_second]

InitTune ==
    /\ kernel_config_ini \in IniFiles
    /\ ini_before = kernel_config_ini
    /\ original_kernel_config = None
    /\ configs \in {Take(c, MaxConfigs) :
                        c \in {GenerateTestConfigs(TRUE), GenerateTestConfigs(FALSE), QuickConfigs}}
    /\ tuner_results = <<>> /\ tune_log = <<>>
    /\ tune_pc = "backup"
    /\ SessionIdle /\ ExtractIdle /\ InvokeIdle /\ ParIdle /\ ReadIdle /\ CmdIdle /\ MonIdle
    /\ PipeIdle

notTune == <<sessionVars, extractVars, invokeVars, parVars, readVars, ini_before, configs,
             cmdVars, monVars, pipeVars>>

Logged(step, how) == [tune_log EXCEPT ![Len(tune_log)] = Append(@, [step |-> step, ended |-> how])]

\* run_tuning, line 195
TuneBackup ==
    /\ tune_pc = "backup"
    /\ original_kernel_config' = BackupCurrentConfig(kernel_config_ini, original_kernel_config)
    /\ tune_pc' = "loop"
    /\ UNCHANGED <<kernel_config_ini, tuner_results, tune_log, notTune>>

\* the for statement of line 203 takes the next configuration, or the loop ends
TuneNextConfig ==
    /\ tune_pc = "loop"
    /\ IF Len(tune_log) < Len(configs)
       THEN /\ tune_log' = Append(tune_log, <<>>)
            /\ tune_pc' = "codegen"
       ELSE /\ tune_pc' = "finally"
            /\ UNCHANGED tune_log
    /\ UNCHANGED <<kernel_config_ini, original_kernel_config, tuner_results, notTune>>

\* benchmark_config, lines 134-135: run_codegen
TuneCodegen ==
    \E ok \in BOOLEAN :
        /\ tune_pc = "codegen"
        /\ LET config == configs[Len(tune_log)]
           IN  IF ok
               THEN /\ kernel_config_ini' = [exists |-> TRUE, text |-> IniText(config)]
                    /\ tune_log' = Logged("codegen", "ok")
                    /\ tune_pc' = "rebuild"
                    /\ UNCHANGED tuner_results
               ELSE /\ tune_log' = Logged("codegen", "failed")
                    /\ tuner_results' = Append(tuner_results,
                            [config |-> config, status |-> "codegen_failed",
                             tokens_per_second |-> 0])
                    /\ tune_pc' = "loop"
                    /\ UNCHANGED kernel_config_ini
        /\ UNCHANGED <<original_kernel_config, notTune>>

\* benchmark_config, lines 139-140: rebuild_bitnet
TuneRebuild ==
    \E ok \in BOOLEAN :
        /\ tune_pc = "rebuild"
        /\ LET config == configs[Len(tune_log)]
           IN  IF ok
               THEN /\ tune_log' = Logged("rebuild", "ok")
                    /\ tune_pc' = "benchmark"
                    /\ UNCHANGED tuner_results
               ELSE /\ tune_log' = Logged("rebuild", "failed")
                    /\ tuner_results' = Append(tuner_results,
                            [config |-> config, status |-> "build_failed",
                             tokens_per_second |-> 0])
                    /\ tune_pc' = "loop"
        /\ UNCHANGED <<kernel_config_ini, original_kernel_config, notTune>>

\* benchmark_config, lines 144-183: llama-bench, and line 206
TuneBenchmark ==
    \E bench \in BenchOutcomes :
        /\ tune_pc = "benchmark"
        /\ tune_log' = Logged("benchmark",
                              IF bench.kind = "exited"
                              THEN IF bench.returncode = 0 THEN "ok" ELSE "failed"
                              ELSE bench.kind)
        /\ tuner_results' = Append(tuner_results,
                                   BenchmarkResult(configs[Len(tune_log)], bench))
        /\ tune_pc' = "loop"
        /\ UNCHANGED <<kernel_config_ini, original_kernel_config, notTune>>

\* Ctrl-C while a step of the loop runs: line 213
TuneInterrupt ==
    /\ tune_pc \in {"codegen", "rebuild", "benchmark"}
    /\ tune_pc' = "finally"
    /\ UNCHANGED <<kernel_config_ini, original_kernel_config, tuner_results, tune_log,
                   notTune>>

\* the finally clause, lines 216-220, and show_results
TuneFinally ==
    /\ tune_pc = "finally"
    /\ kernel_config_ini' = RestoreOriginalConfig(kernel_config_ini, original_kernel_config)
    /\ tune_pc' = "returned"
    /\ UNCHANGED <<original_kernel_config, tuner_results, tune_log, notTune>>

NextTune ==
    \/ TuneBackup
    \/ TuneNextConfig
    \/ TuneCodegen
    \/ TuneRebuild
    \/ TuneBenchmark
    \/ TuneInterrupt
    \/ TuneFinally

SpecTune == InitTune /\ [][NextTune]_vars

\* C22: when the loop of run_tuning has ended and run_tuning has restored the
\* configuration, kernel_config.ini has exactly the content it had when
\* tuning started, also when it was empty or did not exist.
C22_OriginalConfigRestored ==
    tune_pc = "returned" => kernel_config_ini = ini_before

\* the steps run for the k-th tested configuration, and how each ended
StepsOf(k) == [n \in 1..Len(tune_log[k]) |-> tune_log[k][n].step]
AllSucceeded(k) ==
    /\ StepsOf(k) = <<"codegen", "rebuild", "benchmark">>
    /\ \A n \in 1..3 : tune_log[k][n].ended = "ok"

\* C23: the steps of each configuration run in the order codegen, rebuild,
\* benchmark and stop at the first failure; a result says "success" only if
\* all three steps succeeded, every other result has tokens_per_second 0, and
\* there is one result per tested configuration in test order.
C23_StepsInOrderAndResultsFaithful ==
    /\ \A k \in 1..Len(tune_log) :
        /\ StepsOf(k) = Take(<<"codegen", "rebuild", "benchmark">>, Len(tune_log[k]))
        /\ \A n \in 1..(Len(tune_log[k]) - 1) : tune_log[k][n].ended = "ok"
    /\ \A k \in 1..Len(tuner_results) :
        /\ tuner_results[k].config = configs[k]
        /\ tuner_results[k].status = "success" => AllSucceeded(k)
        /\ tuner_results[k].status # "success" => tuner_results[k].tokens_per_second = 0
    /\ tune_pc = "loop" => Len(tuner_results) = Len(tune_log)
-----------------------------------------------------------------------------
(***************************************************************************)
(* SpecCmd: the command line a chat script builds for run_inference.py and *)
(* what the wrapper's argparse parser does with it, one argument at a      *)
(* time. Arguments are texts; each option of the parser has its option     *)
(* strings, the type of its value and whether it is required.              *)
(***************************************************************************)

\* the options run_inference.py declares, and the -h/--help argparse adds
RunInferenceOptions ==
    { [strings |-> {<<"-", "h">>, <<"-", "-", "h", "e", "l", "p">>},         dest |-> "help",         type |-> "help",  required |-> FALSE],
      [strings |-> {<<"-", "m">>, <<"-", "-", "m", "o", "d", "e", "l">>},        dest |-> "model",        type |-> "str",   required |-> FALSE],
      [strings |-> {<<"-", "n">>, <<"-", "-", "n", "-", "p", "r", "e", "d", "i", "c", "t">>},    dest |-> "n_predict",    type |-> "int",   required |-> FALSE],
      [strings |-> {<<"-", "p">>, <<"-", "-", "p", "r", "o", "m", "p", "t">>},       dest |-> "prompt",       type |-> "str",   required |-> TRUE],
      [strings |-> {<<"-", "t">>, <<"-", "-", "t", "h", "r", "e", "a", "d", "s">>},      dest |-> "threads",      type |-> "int",   required |-> FALSE],
      [strings |-> {<<"-", "c">>, <<"-", "-", "c", "t", "x", "-", "s", "i", "z", "e">>},     dest |-> "ctx_size",     type |-> "int",   required |-> FALSE],
      [strings |-> {<<"-", "t", "e", "m", "p">>, <<"-", "-", "t", "e", "m", "p", "e", "r", "a", "t", "u", "r", "e">>}, dest |-> "temperature", type |-> "float", required |-> FALSE],
      [strings |-> {<<"-", "c", "n", "v">>, <<"-", "-", "c", "o", "n", "v", "e", "r", "s", "a", "t", "i", "o", "n">>}, dest |-> "conversation", type |-> "flag", required |-> FALSE] }

OptionStrings == UNION {o.strings : o \in RunInferenceOptions}
ActionOf(option_string) == CHOOSE o \in RunInferenceOptions : option_string \in o.strings

StartsWith(s, prefix) == Len(prefix) <= Len(s) /\ SubSeq(s, 1, Len(prefix)) = prefix

\* ArgumentParser._get_option_tuples: the option strings an argument that is
\* not itself an option string can stand for, each with its explicit argument
OptionTuples(arg_string) ==
    IF arg_string[2] = "-"
    THEN LET cut           == Find(arg_string, <<"=">>)
             option_prefix == IF cut = -1 THEN arg_string ELSE SliceTo(arg_string, cut)
         IN  { [option_string |-> o, has_arg |-> cut # -1,
                explicit_arg |-> IF cut = -1 THEN <<>> ELSE SliceFrom(arg_string, cut + 1)] :
                    o \in {x \in OptionStrings : StartsWith(x, option_prefix)} }
    ELSE { [option_string |-> o, has_arg |-> TRUE, explicit_arg |-> SliceFrom(arg_string, 2)] :
                o \in {x \in OptionStrings : x = SubSeq(arg_string, 1, 2)} }
         \cup
         { [option_string |-> o, has_arg |-> FALSE, explicit_arg |-> <<>>] :
                o \in {x \in OptionStrings : x # SubSeq(arg_string, 1, 2)
                                             /\ StartsWith(x, arg_string)} }

\* the parser's _negative_number_matcher: -\d+ or -\d*\.\d+
LooksNegativeNumber(arg_string) ==
    LET rest == Tail(arg_string)
        dot  == Find(rest, <<".">>)
        AllDigits(t) == \A i \in 1..Len(t) : IsDigit(t[i])
    IN  /\ arg_string[1] = "-"
        /\ \/ rest # <<>> /\ AllDigits(rest)
           \/ /\ dot # -1
              /\ AllDigits(SliceTo(rest, dot))
              /\ SliceFrom(rest, dot + 1) # <<>>
              /\ AllDigits(SliceFrom(rest, dot + 1))

\* ArgumentParser._parse_optional: what one argument is taken for
ParseOptional(arg_string) ==
    LET cut    == Find(arg_string, <<"=">>)
        tuples == OptionTuples(arg_string)
    IN  CASE arg_string = <<>>        -> [kind |-> "positional"]
          [] arg_string[1] # "-"      -> [kind |-> "positional"]
          [] arg_string \in OptionStrings ->
                [kind |-> "option", option_string |-> arg_string, has_arg |-> FALSE,
                 explicit_arg |-> <<>>]
          [] Len(arg_string) = 1      -> [kind |-> "positional"]
          [] cut # -1 /\ SliceTo(arg_string, cut) \in OptionStrings ->
                [kind |-> "option", option_string |-> SliceTo(arg_string, cut),
                 has_arg |-> TRUE, explicit_arg |-> SliceFrom(arg_string, cut + 1)]
          [] Cardinality(tuples) > 1  -> [kind |-> "ambiguous"]
          [] Cardinality(tuples) = 1  ->
                LET t == CHOOSE x \in tuples : TRUE
                IN  [kind |-> "option", option_string |-> t.option_string,
                     has_arg |-> t.has_arg, explicit_arg |-> t.explicit_arg]
          [] LooksNegativeNumber(arg_string) -> [kind |-> "positional"]
          [] Contains(arg_string, <<" ">>)   -> [kind |-> "positional"]
          [] OTHER                    -> [kind |-> "unknown"]

\* the type conversion of an option's value succeeds
Converts(type, value) ==
    CASE type = "int"   -> IsIntLiteral(value)
      [] type = "float" -> IsFloatLiteral(value)
      [] OTHER          -> TRUE

\* ArgumentParser._parse_known_args: the parser takes the argument at its
\* position, with the value that follows when the option wants one
Consume(argv, st) ==
    LET arg_string == argv[st.at]
        p == ParseOptional(arg_string)
        action == ActionOf(p.option_string)
        next_is_value == st.at < Len(argv) /\ ParseOptional(argv[st.at + 1]).kind = "positional"
        value == IF p.has_arg THEN p.explicit_arg ELSE argv[st.at + 1]
    IN  CASE p.kind = "ambiguous" -> [st EXCEPT !.error = "ambiguous option"]
          [] p.kind \in {"positional", "unknown"} ->
                [st EXCEPT !.at = @ + 1, !.extras = Append(@, arg_string)]
          [] p.kind = "option" /\ action.type \in {"flag", "help"} ->
                IF p.has_arg THEN [st EXCEPT !.error = "ignored explicit argument"]
                ELSE [st EXCEPT !.at = @ + 1, !.seen = @ \cup {action.dest}]
          [] OTHER ->
                IF ~p.has_arg /\ ~next_is_value
                THEN [st EXCEPT !.error = "expected one argument"]
                ELSE IF ~Converts(action.type, value)
                THEN [st EXCEPT !.error = "invalid value"]
                ELSE [st EXCEPT !.at = @ + (IF p.has_arg THEN 1 ELSE 2),
                                !.seen = @ \cup {action.dest}]

\* ArgumentParser.parse_args after the last argument: a required option that
\* is missing and arguments nothing took are usage errors; -h prints the help
Verdict(st) ==
    CASE st.error # "none"      -> "usage_error"
      [] "help" \in st.seen     -> "help"
      [] \E o \in RunInferenceOptions : o.required /\ o.dest \notin st.seen -> "usage_error"
      [] st.extras # <<>>       -> "usage_error"
      [] OTHER                  -> "accepted"

MODEL_PATH == <<"m", ".", "g", "g", "u", "f">>

\* the command line of each chat script after "run_inference.py"
CommandOf(by, full_prompt, s) ==
    CASE by = "advanced" ->
            << <<"-", "m">>, MODEL_PATH, <<"-", "p">>, full_prompt, <<"-", "n">>, s.max_tokens, <<"-", "t", "e", "m", "p">>, s.temperature,
               <<"-", "t">>, s.threads, <<"-", "t", "o", "p", "_", "k">>, s.top_k, <<"-", "t", "o", "p", "_", "p">>, s.top_p,
               <<"-", "r", "e", "p", "e", "a", "t", "_", "p", "e", "n", "a", "l", "t", "y">>, s.repeat_penalty >>
      [] OTHER ->
            << <<"-", "m">>, MODEL_PATH, <<"-", "p">>, full_prompt, <<"-", "n">>, s.max_tokens, <<"-", "t", "e", "m", "p">>, s.temperature,
               <<"-", "t">>, <<"1", "0">> >>

\* str() of the values the settings can hold
SettingTexts(by) ==
    IF by = "advanced"
    THEN [max_tokens : {<<"2", "0", "0">>, <<"-", "5">>}, temperature : {<<"0", ".", "7">>, <<"-", "0", ".", "5">>}, threads : {<<"1", "0">>, <<"0">>},
          top_k : {<<"4", "0">>, <<"1">>}, top_p : {<<"0", ".", "9", "5">>}, repeat_penalty : {<<"1", ".", "1">>, <<"-", "1", ".", "0">>}]
    ELSE [max_tokens : {<<"2", "0", "0">>}, temperature : {<<"0", ".", "7">>}, threads : {<<"1", "0">>},
          top_k : {<<"4", "0">>}, top_p : {<<"0", ".", "9", "5">>}, repeat_penalty : {<<"1", ".", "1">>}]

\* prompts: an ordinary one, and one whose system prompt starts with a dash
FullPrompts ==
    { <<"S", "\n", "\n", "U", "s", "e", "r", ":", " ", "h", "i", "\n", "\n", "A", "s", "s", "i", "s", "t", "a", "n", "t", ":">>, <<"-", "x", "\n", "\n", "U", "s", "e", "r", ":", " ", "h", "i", "\n", "\n", "A", "s", "s", "i", "s", "t", "a", "n", "t", ":">> }

InitCmd ==
    /\ cmd_by \in {"chat", "realtime", "advanced"}
    /\ \E full_prompt \in FullPrompts, s \in SettingTexts(cmd_by) :
            command = CommandOf(cmd_by, full_prompt, s)
    /\ argp = ParserStart
    /\ cmd_pc = "parsing"
    /\ SessionIdle /\ ExtractIdle /\ InvokeIdle /\ ParIdle /\ ReadIdle /\ TuneIdle /\ MonIdle
    /\ PipeIdle

notCmd == <<sessionVars, extractVars, invokeVars, parVars, readVars, tuneVars,
            command, cmd_by, monVars, pipeVars>>

\* the parser takes the next argument
ParseArgument ==
    /\ cmd_pc = "parsing"
    /\ argp.at <= Len(command) /\ argp.error = "none"
    /\ argp' = Consume(command, argp)
    /\ UNCHANGED <<cmd_pc, notCmd>>

\* parse_args returns the namespace or exits with the usage message
ParseEnds ==
    /\ cmd_pc = "parsing"
    /\ argp.at > Len(command) \/ argp.error # "none"
    /\ cmd_pc' = Verdict(argp)
    /\ UNCHANGED <<argp, notCmd>>

NextCmd ==
    \/ ParseArgument
    \/ ParseEnds

SpecCmd == InitCmd /\ [][NextCmd]_vars

\* C29: the wrapper never rejects the command line of a chat script with a
\* usage error: every flag the script passes is an option the parser declares.
C29_WrapperAcceptsCommand ==
    cmd_pc # "usage_error"
-----------------------------------------------------------------------------
(***************************************************************************)
(* SpecMon: benchmark_thread_configs of tests/monitor_threads.py. The main *)
(* thread runs run_inference_with_monitoring, analyze_stats and the reset  *)
(* of stats for each thread count; the monitor thread runs monitor_loop.   *)
(* The script installs a SIGINT handler that calls sys.exit, so Ctrl-C     *)
(* raises SystemExit in the main thread wherever it is.                    *)
(***************************************************************************)

MaxRuns    == 2
MaxSamples == 3

InitMon ==
    /\ monitoring = FALSE /\ stats = <<>> /\ monitor_thread = "none"
    /\ run_no = 1 /\ raised = "none" /\ mon_pc = "begin"
    /\ SessionIdle /\ ExtractIdle /\ InvokeIdle /\ ParIdle /\ ReadIdle /\ TuneIdle /\ CmdIdle
    /\ PipeIdle

notMon == <<sessionVars, extractVars, invokeVars, parVars, readVars, tuneVars, cmdVars,
            pipeVars>>

\* run_inference_with_monitoring, lines 72-74: the monitor thread is started
MonStart ==
    /\ mon_pc = "begin"
    /\ monitoring' = TRUE
    /\ monitor_thread' = "test"
    /\ mon_pc' = "started"
    /\ UNCHANGED <<stats, run_no, raised, notMon>>

\* lines 77-87: the environment and the command are built, the try is entered
MonEnterTry ==
    /\ mon_pc = "started"
    /\ mon_pc' = "launch"
    /\ UNCHANGED <<monitoring, stats, monitor_thread, run_no, raised, notMon>>

\* lines 88-93: Popen starts the inference process or raises OSError
MonLaunch ==
    \E ok \in BOOLEAN :
        /\ mon_pc = "launch"
        /\ IF ok THEN mon_pc' = "communicate" /\ UNCHANGED raised
                 ELSE mon_pc' = "finally" /\ raised' = "OSError"
        /\ UNCHANGED <<monitoring, stats, monitor_thread, run_no, notMon>>

\* line 96: communicate() returns when the inference process has ended
MonCommunicate ==
    /\ mon_pc = "communicate"
    /\ mon_pc' = "finally"
    /\ UNCHANGED <<monitoring, stats, monitor_thread, run_no, raised, notMon>>

\* lines 206-212: Ctrl-C; the handler raises SystemExit in the main thread.
\* Inside the try statement the finally clause runs next; before the try and
\* inside the finally clause the exception leaves the function at once.
MonSigint ==
    /\ mon_pc \in {"started", "launch", "communicate", "finally", "join"}
    /\ raised' = "SystemExit"
    /\ mon_pc' = IF mon_pc \in {"launch", "communicate"} THEN "finally" ELSE "propagated"
    /\ UNCHANGED <<monitoring, stats, monitor_thread, run_no, notMon>>

\* line 100
MonStop ==
    /\ mon_pc = "finally"
    /\ monitoring' = FALSE
    /\ mon_pc' = "join"
    /\ UNCHANGED <<stats, monitor_thread, run_no, raised, notMon>>

\* lines 101-103: join() returns once the monitor thread has ended; the
\* function returns, or the exception of the try block goes on
MonJoin ==
    /\ mon_pc = "join"
    /\ monitor_thread = "ended"
    /\ mon_pc' = IF raised = "none" THEN "returned" ELSE "propagated"
    /\ UNCHANGED <<monitoring, stats, monitor_thread, run_no, raised, notMon>>

\* benchmark_thread_configs, line 163: analyze_stats reads stats
MonAnalyze ==
    /\ mon_pc = "returned"
    /\ mon_pc' = "analyzed"
    /\ UNCHANGED <<monitoring, stats, monitor_thread, run_no, raised, notMon>>

\* benchmark_thread_configs, lines 166-170 and the next pass of the loop
MonReset ==
    /\ mon_pc = "analyzed"
    /\ stats' = <<>>
    /\ IF run_no < MaxRuns
       THEN run_no' = run_no + 1 /\ mon_pc' = "begin"
       ELSE mon_pc' = "done" /\ UNCHANGED run_no
    /\ UNCHANGED <<monitoring, monitor_thread, raised, notMon>>

\* monitor_loop, line 36: the while test
ThreadTest ==
    /\ monitor_thread = "test"
    /\ monitor_thread' = IF monitoring THEN "sample" ELSE "ended"
    /\ UNCHANGED <<monitoring, stats, run_no, raised, mon_pc, notMon>>

\* monitor_loop, lines 37-42: a sample is taken and appended
ThreadSample ==
    /\ monitor_thread = "sample"
    /\ Len(stats) < MaxSamples
    /\ stats' = Append(stats, [run |-> run_no, while |-> mon_pc])
    /\ monitor_thread' = "sleep"
    /\ UNCHANGED <<monitoring, run_no, raised, mon_pc, notMon>>

\* monitor_loop, line 44
ThreadWakes ==
    /\ monitor_thread = "sleep"
    /\ monitor_thread' = "test"
    /\ UNCHANGED <<monitoring, stats, run_no, raised, mon_pc, notMon>>

NextMon ==
    \/ MonStart
    \/ MonEnterTry
    \/ MonLaunch
    \/ MonCommunicate
    \/ MonSigint
    \/ MonStop
    \/ MonJoin
    \/ MonAnalyze
    \/ MonReset
    \/ ThreadTest
    \/ ThreadSample
    \/ ThreadWakes

SpecMon == InitMon /\ [][NextMon]_vars

\* C30: whenever run_inference_with_monitoring has returned or has let an
\* exception out, monitoring is off and the monitor thread has ended, so no
\* sample is appended afterwards and none while analyze_stats reads stats;
\* every sample an analysis reads was taken during its own run.
C30_MonitorStoppedAndJoined ==
    /\ mon_pc \in {"returned", "propagated", "analyzed", "done"}
            => (~monitoring /\ monitor_thread = "ended")
    /\ \A i \in 1..Len(stats) :
            /\ stats[i].while \notin {"returned", "propagated", "analyzed", "done", "begin"}
            /\ mon_pc \in {"returned", "analyzed"} => stats[i].run = run_no
-----------------------------------------------------------------------------
(***************************************************************************)
(* SpecPipe: a streaming reader and the engine process it started, joined  *)
(* by pipes of a fixed capacity. The engine writes a finite program of     *)
(* units, each to stdout ("out", or "marker" for text that holds a         *)
(* technical marker inside the response) or to stderr ("err"), and then    *)
(* exits. A write blocks while its pipe is full. chat_realtime.py starts   *)
(* the engine with stderr=STDOUT, the other two with a pipe of its own.    *)
(***************************************************************************)

MaxCapacity == 2
MaxWrites   == 4

PipeReaders == {"realtime", "streaming", "streaming_v2"}

RECURSIVE ProgramsOf(_)
ProgramsOf(n) ==
    IF n = 0 THEN {<<>>}
    ELSE ProgramsOf(n - 1)
         \cup {Append(p, u) : p \in ProgramsOf(n - 1), u \in {"out", "marker", "err"}}

\* the pipe a unit is written to, by the Popen call of each script
TargetOf(by, unit) == IF unit = "err" /\ by # "realtime" THEN "stderr" ELSE "stdout"

InitPipe ==
    /\ pipe_by \in PipeReaders
    /\ capacity \in 1..MaxCapacity
    /\ program \in ProgramsOf(MaxWrites)
    /\ child = "running"
    /\ out_pipe = <<>> /\ err_pipe = <<>>
    /\ pipe_pc = "loop"
    /\ SessionIdle /\ ExtractIdle /\ InvokeIdle /\ ParIdle /\ ReadIdle
    /\ TuneIdle /\ CmdIdle /\ MonIdle

notPipe == <<sessionVars, extractVars, invokeVars, parVars, readVars, tuneVars, cmdVars,
             monVars, pipe_by, capacity>>

\* the engine writes its next unit, if the pipe has room for it
EngineWrites ==
    /\ child = "running" /\ program # <<>>
    /\ IF TargetOf(pipe_by, program[1]) = "stdout"
       THEN /\ Len(out_pipe) < capacity
            /\ out_pipe' = Append(out_pipe, program[1])
            /\ UNCHANGED err_pipe
       ELSE /\ Len(err_pipe) < capacity
            /\ err_pipe' = Append(err_pipe, program[1])
            /\ UNCHANGED out_pipe
    /\ program' = Tail(program)
    /\ UNCHANGED <<child, pipe_pc, notPipe>>

\* the engine has written everything and exits, closing its ends of the pipes
EngineExits ==
    /\ child = "running" /\ program = <<>>
    /\ child' = "exited"
    /\ UNCHANGED <<program, out_pipe, err_pipe, pipe_pc, notPipe>>

\* the end of file on stdout: nothing in the pipe and no writer left
StdoutAtEof == out_pipe = <<>> /\ child = "exited"

\* chat_realtime.py, lines 79-115: readline() on stdout; the loop ends at the
\* end of file or when the line holds a marker
PipeReadLine ==
    /\ pipe_by = "realtime" /\ pipe_pc = "loop"
    /\ \/ /\ out_pipe # <<>>
          /\ out_pipe' = Tail(out_pipe)
          /\ pipe_pc' = IF Head(out_pipe) = "marker" THEN "wait" ELSE "loop"
       \/ /\ StdoutAtEof
          /\ pipe_pc' = "wait"
          /\ UNCHANGED out_pipe
    /\ UNCHANGED <<program, child, err_pipe, notPipe>>

\* chat_streaming.py, lines 59-113: read(1) on stdout; the loop ends at the
\* end of file or when the current line holds a marker
PipeReadChar ==
    /\ pipe_by = "streaming" /\ pipe_pc = "loop"
    /\ \/ /\ out_pipe # <<>>
          /\ out_pipe' = Tail(out_pipe)
          /\ pipe_pc' = IF Head(out_pipe) = "marker" THEN "drain" ELSE "loop"
       \/ /\ StdoutAtEof
          /\ pipe_pc' = "drain"
          /\ UNCHANGED out_pipe
    /\ UNCHANGED <<program, child, err_pipe, notPipe>>

\* chat_streaming.py, line 120: stdout.read() takes what arrives until the
\* end of file
PipeDrain ==
    /\ pipe_by = "streaming" /\ pipe_pc = "drain"
    /\ \/ /\ out_pipe # <<>>
          /\ out_pipe' = <<>>
          /\ UNCHANGED pipe_pc
       \/ /\ StdoutAtEof
          /\ pipe_pc' = "wait"
          /\ UNCHANGED out_pipe
    /\ UNCHANGED <<program, child, err_pipe, notPipe>>

\* chat_streaming_v2.py, lines 119-125: poll() ends the loop once the engine
\* has exited; otherwise the non-blocking read takes what the pipe holds
PipePoll ==
    /\ pipe_by = "streaming_v2" /\ pipe_pc = "loop"
    /\ IF child = "exited"
       THEN pipe_pc' = "wait" /\ UNCHANGED out_pipe
       ELSE out_pipe # <<>> /\ out_pipe' = <<>> /\ UNCHANGED pipe_pc
    /\ UNCHANGED <<program, child, err_pipe, notPipe>>

\* process.wait() returns when the engine has exited; chat_realtime.py then
\* returns, the others read stderr
PipeWait ==
    /\ pipe_pc = "wait"
    /\ child = "exited"
    /\ pipe_pc' = IF pipe_by = "realtime" THEN "returned" ELSE "stderr"
    /\ UNCHANGED <<program, child, out_pipe, err_pipe, notPipe>>

\* chat_streaming.py line 127, chat_streaming_v2.py line 177: stderr.read()
PipeReadStderr ==
    /\ pipe_pc = "stderr"
    /\ child = "exited"
    /\ err_pipe' = <<>>
    /\ pipe_pc' = "returned"
    /\ UNCHANGED <<program, child, out_pipe, notPipe>>

NextPipe ==
    \/ EngineWrites
    \/ EngineExits
    \/ PipeReadLine
    \/ PipeReadChar
    \/ PipeDrain
    \/ PipePoll
    \/ PipeWait
    \/ PipeReadStderr

SpecPipe == InitPipe /\ [][NextPipe]_vars

\* every step of the engine and of the reader is taken if it stays possible
SpecPipeFair == SpecPipe /\ WF_vars(NextPipe)

\* the engine is stopped in a write to a full pipe
EngineBlocked ==
    /\ child = "running" /\ program # <<>>
    /\ IF TargetOf(pipe_by, program[1]) = "stdout"
       THEN Len(out_pipe) >= capacity ELSE Len(err_pipe) >= capacity

\* the reader waits for the engine to exit, or for data on an empty stdout
ReaderWaits ==
    \/ pipe_pc = "wait"
    \/ pipe_pc \in {"loop", "drain"} /\ out_pipe = <<>>

\* C24: no reachable state has the engine blocked in a write to a full pipe
\* that the reader is not reading while the reader waits for the engine to
\* exit or for data on the other pipe; so every streaming reader returns.
C24_NoBlockedWriter ==
    ~(EngineBlocked /\ ReaderWaits)

\* the termination the statement asks for, under SpecPipeFair
EventuallyReturns == <>(pipe_pc = "returned")

====
